---- MODULE Spec2Model ----
(***************************************************************************)
(* A model of the concurrency core of sargassum-world/godest:               *)
(*   - pubsub.Hub        (src/pubsub/hub.go, lines 1-204)                   *)
(*   - pubsub.Broker     (src/pubsub/broker.go, lines 1-257)                *)
(*   - actioncable.Conn, actioncable.ChannelDispatcher and the Turbo        *)
(*     Streams channel adapter.                                             *)
(* Every goroutine of the code is a process of the model; a process moves   *)
(* at the points where the code can block or be preempted with an effect    *)
(* another goroutine can see: taking h.mu, sending on the unbuffered        *)
(* brChanges / toClient channels, waiting for a context.                    *)
(***************************************************************************)
EXTENDS Integers, Sequences, FiniteSets, TLC

\* ------------------------------------------------------------------ bounds
MaxSubs == 2          \* subscriptions created in one run
MaxBroadcasts == 2    \* Hub.Broadcast calls in one run
MaxCancels == 1       \* Hub.Cancel calls in one run
BrokerMaxBroadcasts == 1  \* Hub.Broadcast calls in one run of SpecBroker

MaxCommands == 3      \* commands a client sends on the connection
MaxSends == 2         \* Subscription.SendText and SendBytes calls
MaxPings == 1         \* ticks of the ping tickers of sendAll
MaxDispatch == 4      \* HandleSubscription calls on a dispatcher
MaxAdds == 3          \* Cancellers.Add calls
MaxKeyCancels == 2    \* Cancellers.Cancel calls
MaxRoutes == 3        \* HandlerRouter.Add calls
MaxPubCalls == 8      \* direct Broker.TriggerPub and Broker.CancelPub calls

Topics == {"/a", "/b"}
\* Topics for which a PUB route is registered in the broker's router.
PubRoutes == {"/a"}
\* The argument lists Hub.Cancel is called with.
CancelArgs == {<<"/a">>, <<"/b">>, <<"/a", "/b">>}

SubIds == 1..MaxSubs
BcIds == 1..MaxBroadcasts
CancelIds == 1..MaxCancels
None == "none"
NoTask == <<"none", 0>>   \* no goroutine holds h.mu exclusively
NoEvent == [added |-> <<>>, removed |-> <<>>]

\* What a user-supplied handler can return: nil, an error that is (or wraps)
\* context.Canceled, or any other error.
HandlerResults == {"nil", "canceled", "err"}
\* What a hub receive callback / broadcast handler can return.
ReceiveResults == {"nil", "err"}

\* The subscription identifier of the Turbo Streams channel of a stream, and
\* parseStreamName (actioncable-channel.go 31-41), which reads the name back.
Identifier(t) == <<"Turbo::StreamsChannel", t>>
Identifiers == {Identifier(t) : t \in Topics}
parseStreamName(id) == id[2]
\* What the identifier checkers say of a subscribe command.
CheckResults == {"ok", "fail"}
NoMsg == [type |-> "none", identifier |-> <<>>]
NoCmd == [cmd |-> "none", identifier |-> <<>>]
SendIds == 1..MaxSends
\* The ids given to a Cancellers and the cancel functions added to it.
CancIds == {"x", "y"}
FuncIds == 1..MaxAdds
\* The kinds of a router node (broker-router.go 110-112).
staticKind == 0
paramKind == 1
anyKind == 2
\* Router inputs: a path is the sequence of its characters.
Methods == {"PUB", "SUB"}
Patterns == {<<"/", "a">>, <<"/", "a", "/", "b">>, <<"/", ":", "x">>,
             <<"/", "a", "/", ":", "y">>, <<"/", ":", "x", "/", "b">>,
             <<"/", "*">>, <<"/", "a", "/", "*">>}
Paths == {<<"/">>, <<"/", "a">>, <<"/", "b">>, <<"/", "a", "/">>,
          <<"/", "a", "/", "b">>, <<"/", "a", "/", "c">>,
          <<"/", "b", "/", "b">>, <<"/", "b", "/", "c">>}
\* No Find has been made since the last Add.
NoFind == [method |-> "none", topic |-> <<>>,
           ctx |-> [path |-> <<>>, pnames |-> <<>>, pvalues |-> <<>>, handler |-> "none"]]
\* The tickers of sendAll (connections.go 302-305) and the frame each writes.
PingKinds == {"wsPing", "ping"}
NoCall == [id |-> <<>>, chk |-> "none", fac |-> FALSE, made |-> "none", sub |-> "none",
           err |-> "none", factoryCalled |-> FALSE, subscribeCalled |-> FALSE]
NoFrame == [type |-> "none", reason |-> "", reconnect |-> FALSE]
\* How a read of the websocket fails: the client closed it in the ordinary way
\* (websocket.CloseNormalClosure, CloseGoingAway), or anything else.
ReadErrors == {"normalClose", "readErr"}
\* The errors Conn.Close is given.
CloseErrs == {"nil", "canceled", "other"}

Range(seq) == {seq[i] : i \in 1..Len(seq)}
Restrict(f, S) == [x \in S |-> f[x]]

VARIABLES
  \* ---- Hub (hub.go 38-43)
  broadcastings,   \* h.broadcastings: topic -> set of subscriptions
  hubClosed,       \* TRUE once Close has set h.broadcastings and h.brChanges to nil
  writer,          \* the task holding h.mu exclusively, or NoTask
  readers,         \* the Broadcast calls holding h.mu for reading
  brSend,          \* the BroadcastingChange a blocked sender offers on brChanges
  evNet,           \* history: Added minus Removed events sent on brChanges, per topic
  panicked,        \* TRUE once a goroutine has panicked (write to the nil map)
  \* ---- subscriptions (hub.go 20-24, broker.go 202-225)
  nextSub,         \* the next subscription to be created
  sTopic, sKind,   \* subscription.topic; "hub" (Hub.Subscribe) or "broker" (Broker.Subscribe)
  subPc,           \* where the Subscribe call of the subscription is
  subResult,       \* what the SUB handler returned
  ctxCancelled,    \* the caller's context of the subscription is cancelled
  brokerCancelled, \* Broker.Subscribe's cancel() has been called
  hubCancelled,    \* subscription.cancel() has been called
  watchPc,         \* the goroutine of hub.go 110-114
  unsubPc,         \* the goroutine of broker.go 220-223
  unsubCalls,      \* history: number of UNSUB handler invocations
  unsubCtxDone,    \* history: the context was done at every UNSUB invocation
  handlerInvoked,  \* history: the broadcast handler has been invoked
  \* ---- Hub.Broadcast calls (hub.go 170-204)
  nextBc, bcPc, bcTopic,
  bcSnap,          \* the broadcasting found under the read lock
  bcTodo,          \* subscriptions whose callback task has not run yet
  bcErrs,          \* willUnsubscribe, in arrival order
  bcCalls,         \* history: receive invocations per subscription
  \* ---- Hub.Cancel calls (hub.go 119-138)
  nextCancel, cancelPc, cancelTopics,
  \* ---- Broker.Serve (broker.go 236-257)
  servePc, serveCtx, closePc,
  pubCancelers,    \* b.pubCancelers: the topics with a recorded cancel function
  pubLive,         \* PUB tasks launched whose cancel function was not called, per topic
  \* ---- actioncable.Conn (connections.go 55-64) with its ChannelDispatcher
  connPc,          \* where receiveAll is
  connErr,         \* why receiveAll returned
  sendPc,          \* where sendAll is
  egCancelled,     \* the context of the errgroup of Conn.Serve is done
  toClient,        \* the message a blocked sender offers on c.toClient
  unsubscribers,   \* c.unsubscribers: identifier -> the subscription its cancel function ends
  channels,        \* d.channels: the identifiers with a channel
  nCmds,           \* commands read from the client
  curCmd,          \* the command being processed
  curSub,          \* the Broker.Subscribe call made for it, 0 if none
  cctx,            \* the context derived by the last Conn.subscribe (connections.go 167)
  handleCalls,     \* history: HandleSubscription invocations per identifier
  confirms,        \* history: confirm_subscription messages enqueued per identifier
  rejects,         \* history: reject_subscription messages enqueued per identifier
  lastOutcome,     \* history: how the last subscribe or unsubscribe of the identifier ended
  subCmds,         \* history: subscribe commands read per identifier
  connCtx,         \* the context given to Conn.Serve is cancelled by its owner
  egErr,           \* the first non-nil error returned in the errgroup of Conn.Serve
  connServe,       \* what Conn.Serve returned, None while it runs
  \* ---- Conn.Close (connections.go 124-152)
  connClosePc,     \* where Conn.Close is
  closeErr,        \* the error Conn.Close was given
  disconnectFrame, \* the disconnect message handed to writeAsMarshaled
  disconnectWritten, \* the write of the disconnect message succeeded
  \* ---- what sendAll writes (connections.go 296-348)
  wire,            \* history: the frames sendAll has written to the websocket, in order
  pings,           \* ticks of the two ping tickers sendAll has taken
  \* ---- Subscription.SendText and SendBytes calls (subscriptions.go 18-61)
  stPc,            \* where the call is
  stCtx,           \* the context given to the call is cancelled
  stRes,           \* what the call returned
  stEnq,           \* history: sendAll has taken the message of the call from toClient
  \* ---- a ChannelDispatcher of any channels (part_003 22-26)
  dChannels,       \* d.channels: the identifiers with a channel
  dLast,           \* history: the last HandleSubscription call and what it did
  \* ---- Broker.TriggerPub and Broker.CancelPub called directly (broker.go 166-195)
  pubLast,         \* history: the last call, its topic and what it returned
  pubCalls,        \* calls made
  \* ---- the goroutine of Channel.Subscribe (actioncable-channel.go 83-86)
  subClosed,       \* sub.Close() was called for the Subscription of the hub subscription
  dCalls,          \* HandleSubscription calls made
  \* ---- actioncable.Cancellers (cancellation.go 10-13)
  cFuncs,          \* c.funcs: id -> the cancel functions added under it, in order
  cHolder,         \* the call holding c.m
  cNext,           \* the next cancel function to be added
  cCancels,        \* Cancel calls made
  cKey,            \* history: the id each cancel function was added under
  cInvoked,        \* history: invocations of each cancel function
  \* ---- pubsub.HandlerRouter (broker-router.go 222-226)
  router,          \* r.tree (the nodes, the root first) and *r.maxParam
  rAdded,          \* history: the Add calls made, in order
  rFound,          \* the last Find since the last Add: its inputs and its context
  \* ---- turbostreams.Signer (part_002 104-106)
  sgKey,           \* s.Config.HashKey of the signer that checked
  sgIdentifier,    \* the identifier it checked: its name and integrity fields
  sgResult         \* what Check returned

hubVars == <<broadcastings, hubClosed, writer, readers, brSend, evNet, panicked>>
subVars == <<nextSub, sTopic, sKind, subPc, subResult, ctxCancelled, brokerCancelled,
             hubCancelled, watchPc, unsubPc, unsubCalls, unsubCtxDone, handlerInvoked>>
bcVars == <<nextBc, bcPc, bcTopic, bcSnap, bcTodo, bcErrs, bcCalls>>
cancelVars == <<nextCancel, cancelPc, cancelTopics>>
serveVars == <<servePc, serveCtx, closePc, pubCancelers, pubLive>>
connVars == <<connPc, connErr, sendPc, egCancelled, toClient, unsubscribers, channels,
              nCmds, curCmd, curSub, cctx, handleCalls, confirms, rejects, lastOutcome,
              subCmds, connCtx, egErr, connServe, connClosePc, closeErr,
              disconnectFrame, disconnectWritten>>
serveOutVars == <<connCtx, egErr, connServe>>
closeVars == <<connClosePc, closeErr, disconnectFrame, disconnectWritten>>
stVars == <<stPc, stCtx, stRes, stEnq>>
sendVars == <<wire, pings, stVars>>
dispVars == <<dChannels, dLast, dCalls>>
cancVars == <<cFuncs, cHolder, cNext, cCancels, cKey, cInvoked>>
routerVars == <<router, rAdded, rFound>>
signVars == <<sgKey, sgIdentifier, sgResult>>
pubVars == <<pubLast, pubCalls>>
chanVars == <<subClosed>>
compVars == <<dispVars, cancVars, routerVars, signVars, pubVars, chanVars>>
vars == <<hubVars, subVars, bcVars, cancelVars, serveVars, connVars, sendVars, compVars>>

\* ------------------------------------------------------------------ Init
\* NewBroker (broker.go 26-38) with NewHub (hub.go 48-54): empty maps, an open
\* unbuffered change channel, nothing running.
HubInit ==
  /\ broadcastings = <<>>
  /\ hubClosed = FALSE
  /\ writer = NoTask
  /\ readers = {}
  /\ brSend = NoEvent
  /\ evNet = [t \in Topics |-> 0]
  /\ panicked = FALSE
  /\ nextSub = 1
  /\ sTopic = [s \in SubIds |-> None]
  /\ sKind = [s \in SubIds |-> None]
  /\ subPc = [s \in SubIds |-> "none"]
  /\ subResult = [s \in SubIds |-> None]
  /\ ctxCancelled = [s \in SubIds |-> FALSE]
  /\ brokerCancelled = [s \in SubIds |-> FALSE]
  /\ hubCancelled = [s \in SubIds |-> FALSE]
  /\ watchPc = [s \in SubIds |-> "idle"]
  /\ unsubPc = [s \in SubIds |-> "idle"]
  /\ unsubCalls = [s \in SubIds |-> 0]
  /\ unsubCtxDone = [s \in SubIds |-> TRUE]
  /\ handlerInvoked = [s \in SubIds |-> FALSE]
  /\ nextBc = 1
  /\ bcPc = [b \in BcIds |-> "idle"]
  /\ bcTopic = [b \in BcIds |-> None]
  /\ bcSnap = [b \in BcIds |-> {}]
  /\ bcTodo = [b \in BcIds |-> {}]
  /\ bcErrs = [b \in BcIds |-> <<>>]
  /\ bcCalls = [b \in BcIds |-> [s \in SubIds |-> 0]]
  /\ nextCancel = 1
  /\ cancelPc = [c \in CancelIds |-> "idle"]
  /\ cancelTopics = [c \in CancelIds |-> <<>>]
  /\ serveCtx = FALSE
  /\ pubCancelers = {}
  /\ pubLive = [t \in Topics |-> 0]

\* Upgrade (connections.go 91-121) with NewChannelDispatcher (part_003 28-36):
\* empty maps, an unbuffered toClient channel, Conn.Serve started.
ConnInit ==
  /\ connPc = "read"
  /\ connErr = None
  /\ sendPc = "welcome"
  /\ egCancelled = FALSE
  /\ toClient = NoMsg
  /\ unsubscribers = <<>>
  /\ channels = {}
  /\ nCmds = 0
  /\ curCmd = NoCmd
  /\ curSub = 0
  /\ cctx = "none"
  /\ handleCalls = [id \in Identifiers |-> 0]
  /\ confirms = [id \in Identifiers |-> 0]
  /\ rejects = [id \in Identifiers |-> 0]
  /\ lastOutcome = [id \in Identifiers |-> "none"]
  /\ subCmds = [id \in Identifiers |-> 0]
  /\ connCtx = FALSE
  /\ egErr = None
  /\ connServe = None
  /\ connClosePc = "idle"
  /\ closeErr = None
  /\ disconnectFrame = NoFrame
  /\ disconnectWritten = FALSE
  /\ wire = <<>>
  /\ pings = 0
  /\ stPc = [k \in SendIds |-> "idle"]
  /\ stCtx = [k \in SendIds |-> FALSE]
  /\ stRes = [k \in SendIds |-> None]
  /\ stEnq = [k \in SendIds |-> FALSE]

\* NewChannelDispatcher (part_003 28-36) with no channel yet.
DispInit ==
  /\ dChannels = {}
  /\ dLast = NoCall
  /\ dCalls = 0

\* NewCancellers (cancellation.go 16-21).
CancInit ==
  /\ cFuncs = <<>>
  /\ cHolder = NoTask
  /\ cNext = 1
  /\ cCancels = 0
  /\ cKey = [f \in FuncIds |-> None]
  /\ cInvoked = [f \in FuncIds |-> 0]

\* NewHandlerRouter (broker-router.go 229-237): a root node with no prefix.
RouterInit ==
  /\ router = [tree |-> <<[kind |-> staticKind, prefix |-> <<>>, parent |-> 0,
                          staticChildren |-> <<>>, originalPath |-> <<>>,
                          methods |-> <<>>, paramsCount |-> 0, paramChild |-> 0,
                          anyChild |-> 0, isLeaf |-> FALSE, isHandler |-> FALSE]>>,
               maxParam |-> 0]
  /\ rAdded = <<>>
  /\ rFound = NoFind

CompInit ==
  /\ DispInit /\ CancInit /\ RouterInit
  /\ sgKey = 0 /\ sgIdentifier = [name |-> "", integrity |-> <<>>] /\ sgResult = "none"
  /\ pubLast = [op |-> "none", topic |-> "", ctxDone |-> FALSE, err |-> "nil"] /\ pubCalls = 0
  /\ subClosed = [s \in SubIds |-> FALSE]

\* Broker.Serve not yet called.
Init == HubInit /\ ConnInit /\ CompInit /\ servePc = "init" /\ closePc = "idle"

\* Broker.Serve running (broker.go 236-243) when the connection is upgraded.
InitConn == HubInit /\ ConnInit /\ CompInit /\ servePc = "recv" /\ closePc = "wait"

\* ------------------------------------------------------------- contexts
\* A subscription context that does not descend from the errgroup's.
SubscribeCtxDetached(s) == ctxCancelled[s]

\* The context given to Broker.Subscribe is done: its own cancel function was
\* called or, for a subscription made for a subscribe command, the context of
\* the errgroup of Conn.Serve from which Conn.subscribe derives it is done
\* (connections.go 167, 354-356).
SubscribeCtxErr(s) == ctxCancelled[s] \/ egCancelled

\* Broker.Subscribe derives cctx from the caller's ctx (broker.go 209); the
\* hub derives the subscription's own context from that (hub.go 88).
BrokerCtxErr(s) == brokerCancelled[s] \/ SubscribeCtxErr(s)
\* The done-channel returned by Hub.Subscribe (hub.go 115) is closed.
Done(s) == hubCancelled[s] \/ BrokerCtxErr(s)

\* ------------------------------------------------------------- h.mu
\* sync.RWMutex: Lock needs no writer and no reader; RLock needs no writer and
\* no goroutine that holds a read lock waiting in Lock.
LockFree == writer = NoTask /\ readers = {}
RLockFree == writer = NoTask /\ \A b \in BcIds : bcPc[b] # "locking"

\* h.brChanges <- change (hub.go 107, 136, 163): the sender blocks, holding
\* h.mu, until Broker.Serve receives.
Count(seq, t) == Cardinality({i \in 1..Len(seq) : seq[i] = t})
Emit(change) ==
  /\ brSend' = change
  /\ evNet' = [t \in Topics |->
                 evNet[t] + Count(change.added, t) - Count(change.removed, t)]

\* ------------------------------------------------------------- Subscribe
\* TriggerSub (broker.go 143-153): the error TriggerSub returns for what the
\* SUB handler returned.
TriggerSub(r) == IF r # "nil" /\ r # "canceled" THEN "err" ELSE "nil"

\* The goroutines started when Subscribe returns: hub.go 110-114 and, for a
\* broker subscription, broker.go 220-223.
SpawnWatch(s) == [watchPc EXCEPT ![s] = "wait"]
SpawnUnsub(s, kind) == [unsubPc EXCEPT ![s] = IF kind = "broker" THEN "wait" ELSE "idle"]

\* Hub.Subscribe (hub.go 84-116) from the moment it holds h.mu. Writing to the
\* nil map of a closed hub panics. When the topic is new the call stays in the
\* send of hub.go 107, holding h.mu.
SubscribeLocked(s, topic, kind) ==
  /\ LockFree
  /\ IF hubClosed
     THEN /\ panicked' = TRUE
          /\ subPc' = [subPc EXCEPT ![s] = "panicked"]
          /\ UNCHANGED <<broadcastings, writer, brSend, evNet, watchPc, unsubPc>>
     ELSE LET addedTopic == topic \notin DOMAIN broadcastings
              br == IF addedTopic THEN {} ELSE broadcastings[topic]
          IN /\ broadcastings' = (topic :> (br \cup {s})) @@ broadcastings
             /\ panicked' = panicked
             /\ IF addedTopic
                THEN /\ Emit([added |-> <<topic>>, removed |-> <<>>])
                     /\ writer' = <<"sub", s>>
                     /\ subPc' = [subPc EXCEPT ![s] = "sending"]
                     /\ UNCHANGED <<watchPc, unsubPc>>
                ELSE /\ subPc' = [subPc EXCEPT ![s] = "active"]
                     /\ watchPc' = SpawnWatch(s)
                     /\ unsubPc' = SpawnUnsub(s, kind)
                     /\ UNCHANGED <<writer, brSend, evNet>>

\* Hub.Subscribe called directly.
HubSubscribe(topic) ==
  /\ ~panicked /\ nextSub <= MaxSubs
  /\ sTopic' = [sTopic EXCEPT ![nextSub] = topic]
  /\ sKind' = [sKind EXCEPT ![nextSub] = "hub"]
  /\ nextSub' = nextSub + 1
  /\ SubscribeLocked(nextSub, topic, "hub")
  /\ UNCHANGED <<hubClosed, readers, bcVars, cancelVars, serveVars, subResult,
                 ctxCancelled, brokerCancelled, hubCancelled, unsubCalls, unsubCtxDone,
                 handlerInvoked>>
  /\ UNCHANGED <<connVars, sendVars, compVars>>

\* Broker.Subscribe (broker.go 202-225): the SUB handler runs first; on an
\* error of TriggerSub a nil channel is returned, else Hub.Subscribe is called.
BrokerSubscribeOp(topic, r) ==
  /\ ~panicked /\ nextSub <= MaxSubs
  /\ sTopic' = [sTopic EXCEPT ![nextSub] = topic]
  /\ sKind' = [sKind EXCEPT ![nextSub] = "broker"]
  /\ subResult' = [subResult EXCEPT ![nextSub] = r]
  /\ nextSub' = nextSub + 1
  /\ IF TriggerSub(r) # "nil"
     THEN /\ subPc' = [subPc EXCEPT ![nextSub] = "rejected"]
          /\ UNCHANGED <<broadcastings, writer, brSend, evNet, panicked, watchPc,
                         unsubPc>>
     ELSE SubscribeLocked(nextSub, topic, "broker")
  /\ UNCHANGED <<hubClosed, readers, bcVars, cancelVars, serveVars, ctxCancelled,
                 brokerCancelled, hubCancelled, unsubCalls, unsubCtxDone,
                 handlerInvoked>>

\* Broker.Subscribe called directly.
BrokerSubscribe(topic, r) ==
  BrokerSubscribeOp(topic, r) /\ UNCHANGED <<connVars, sendVars, compVars>>

\* The context given to Subscribe is cancelled by its owner.
CtxCancel(s) ==
  /\ ~panicked /\ subPc[s] \in {"sending", "active"} /\ ~ctxCancelled[s]
  /\ ctxCancelled' = [ctxCancelled EXCEPT ![s] = TRUE]
  /\ UNCHANGED <<hubVars, bcVars, cancelVars, serveVars, nextSub, sTopic, sKind, subPc,
                 subResult, brokerCancelled, hubCancelled, watchPc, unsubPc,
                 unsubCalls, unsubCtxDone, handlerInvoked>>
  /\ UNCHANGED <<connVars, sendVars, compVars>>

\* The goroutine of broker.go 220-223 without the wait of line 221.
UnsubWatcherNoWait(s) ==
  /\ ~panicked /\ unsubPc[s] = "wait"
  /\ unsubPc' = [unsubPc EXCEPT ![s] = "done"]
  /\ unsubCalls' = [unsubCalls EXCEPT ![s] = @ + 1]
  /\ unsubCtxDone' = [unsubCtxDone EXCEPT ![s] = @ /\ BrokerCtxErr(s)]
  /\ UNCHANGED <<hubVars, bcVars, cancelVars, serveVars, nextSub, sTopic, sKind, subPc,
                 subResult, ctxCancelled, brokerCancelled, hubCancelled, watchPc,
                 handlerInvoked>>
  /\ UNCHANGED <<connVars, sendVars, compVars>>

\* broker.go 221-222 with TriggerUnsub (broker.go 156-164): the done-channel is
\* closed, the UNSUB handler runs with cctx.
UnsubWatcher(s) ==
  /\ ~panicked /\ unsubPc[s] = "wait" /\ Done(s)
  /\ unsubPc' = [unsubPc EXCEPT ![s] = "done"]
  /\ unsubCalls' = [unsubCalls EXCEPT ![s] = @ + 1]
  /\ unsubCtxDone' = [unsubCtxDone EXCEPT ![s] = @ /\ BrokerCtxErr(s)]
  /\ UNCHANGED <<hubVars, bcVars, cancelVars, serveVars, nextSub, sTopic, sKind, subPc,
                 subResult, ctxCancelled, brokerCancelled, hubCancelled, watchPc,
                 handlerInvoked>>
  /\ UNCHANGED <<connVars, sendVars, compVars>>

\* ------------------------------------------------------------- unsubscribe
\* An unsubscribe that leaves the emptied broadcasting in the map.
RECURSIVE unsubscribeLoopKeepsEmpty(_, _, _, _)
unsubscribeLoopKeepsEmpty(subs, br, cancelled, removed) ==
  IF subs = <<>>
  THEN [br |-> br, cancelled |-> cancelled, removed |-> removed]
  ELSE LET sub == Head(subs)
           t == sTopic[sub]
       IN IF t \notin DOMAIN br
          THEN unsubscribeLoopKeepsEmpty(Tail(subs), br, cancelled, removed)
          ELSE unsubscribeLoopKeepsEmpty(Tail(subs), [br EXCEPT ![t] = @ \ {sub}],
                                         cancelled \cup {sub}, removed)

\* The loop of Hub.unsubscribe (hub.go 149-161) over its argument list: the
\* map, the subscriptions whose cancel was called and removedTopics.
RECURSIVE unsubscribeLoop(_, _, _, _)
unsubscribeLoop(subs, br, cancelled, removed) ==
  IF subs = <<>>
  THEN [br |-> br, cancelled |-> cancelled, removed |-> removed]
  ELSE LET sub == Head(subs)
           t == sTopic[sub]
       IN IF t \notin DOMAIN br
          THEN unsubscribeLoop(Tail(subs), br, cancelled, removed)
          ELSE IF br[t] \ {sub} = {}
               THEN unsubscribeLoop(Tail(subs), Restrict(br, DOMAIN br \ {t}),
                                    cancelled \cup {sub}, Append(removed, t))
               ELSE unsubscribeLoop(Tail(subs), [br EXCEPT ![t] = @ \ {sub}],
                                    cancelled \cup {sub}, removed)

\* The callers of Hub.unsubscribe: the goroutine of each subscription
\* (hub.go 111-113), once its done-channel is closed, and each Broadcast call
\* (hub.go 203), which still holds its read lock (hub.go 172).
UnsubTasks == ({"watch"} \X SubIds) \cup ({"bc"} \X BcIds)
UnsubReady(t) ==
  IF t[1] = "watch" THEN watchPc[t[2]] = "wait" /\ Done(t[2])
  ELSE bcPc[t[2]] = "locking"
UnsubArgs(t) == IF t[1] = "watch" THEN <<t[2]>> ELSE bcErrs[t[2]]
\* The caller's position: in the send of hub.go 163, or past unsubscribe (the
\* goroutine ends; the Broadcast call runs its deferred RUnlock and returns).
UnsubPcNext(t, pc) ==
  /\ watchPc' = IF t[1] = "watch"
                THEN [watchPc EXCEPT ![t[2]] = IF pc = "returned" THEN "done" ELSE pc]
                ELSE watchPc
  /\ bcPc' = IF t[1] = "bc" THEN [bcPc EXCEPT ![t[2]] = pc] ELSE bcPc
  /\ readers' = IF t[1] = "bc" /\ pc = "returned" THEN readers \ {t[2]} ELSE readers

\* Hub.unsubscribe under h.mu (hub.go 146-164).
Unsubscribe(t) ==
  /\ ~panicked /\ UnsubReady(t) /\ LockFree
  /\ LET r == unsubscribeLoop(UnsubArgs(t), broadcastings, {}, <<>>)
     IN /\ broadcastings' = r.br
        /\ hubCancelled' = [s \in SubIds |-> hubCancelled[s] \/ s \in r.cancelled]
        /\ IF ~hubClosed /\ Len(r.removed) > 0
           THEN /\ Emit([added |-> <<>>, removed |-> r.removed])
                /\ writer' = t
                /\ UnsubPcNext(t, "sending")
           ELSE /\ UnsubPcNext(t, "returned")
                /\ UNCHANGED <<writer, brSend, evNet>>
  /\ UNCHANGED <<hubClosed, panicked, cancelVars, serveVars, nextSub, sTopic, sKind,
                 subPc, subResult, ctxCancelled, brokerCancelled, unsubPc, unsubCalls,
                 unsubCtxDone, handlerInvoked, nextBc, bcTopic, bcSnap, bcTodo, bcErrs,
                 bcCalls>>
  /\ UNCHANGED <<connVars, sendVars, compVars>>

\* ------------------------------------------------------------- Broadcast
\* Hub.Broadcast (hub.go 170-195): under the read lock the broadcasting of the
\* topic is looked up; with none the call returns, else one task per
\* subscription is started.
BroadcastOp(topic, max) ==
  /\ ~panicked /\ nextBc <= max /\ RLockFree
  /\ bcTopic' = [bcTopic EXCEPT ![nextBc] = topic]
  /\ nextBc' = nextBc + 1
  /\ IF topic \notin DOMAIN broadcastings
     THEN /\ bcPc' = [bcPc EXCEPT ![nextBc] = "returned"]
          /\ UNCHANGED <<readers, bcSnap, bcTodo>>
     ELSE /\ readers' = readers \cup {nextBc}
          /\ bcSnap' = [bcSnap EXCEPT ![nextBc] = broadcastings[topic]]
          /\ bcTodo' = [bcTodo EXCEPT ![nextBc] = broadcastings[topic]]
          /\ bcPc' = [bcPc EXCEPT ![nextBc] = "running"]
  /\ UNCHANGED <<broadcastings, hubClosed, writer, brSend, evNet, panicked, subVars,
                 cancelVars, serveVars, bcErrs, bcCalls>>
  /\ UNCHANGED <<connVars, sendVars, compVars>>

Broadcast(topic) == BroadcastOp(topic, MaxBroadcasts)
BrokerBroadcast(topic) == BroadcastOp(topic, BrokerMaxBroadcasts)

\* The receive callback of the subscription, given what the user's function
\* returns. A subscription made by Hub.Subscribe runs the user's function; one
\* made by Broker.Subscribe runs the wrapper of broker.go 210-219.
ReceiveInvokesHandler(s) == sKind[s] = "hub" \/ ~BrokerCtxErr(s)
Receive(s, res) == IF ReceiveInvokesHandler(s) THEN res ELSE "err"
\* A wrapper that leaves the context alone when the handler fails.
ReceiveNeverCancels(s, res) == FALSE

ReceiveCancels(s, res) ==
  sKind[s] = "broker" /\ ReceiveInvokesHandler(s) /\ res = "err"

\* One callback task of a Broadcast (hub.go 184-194).
Callback(b, s, res) ==
  /\ ~panicked /\ bcPc[b] = "running" /\ s \in bcTodo[b]
  /\ bcTodo' = [bcTodo EXCEPT ![b] = @ \ {s}]
  /\ bcCalls' = [bcCalls EXCEPT ![b][s] = @ + 1]
  /\ handlerInvoked' = [handlerInvoked EXCEPT ![s] = @ \/ ReceiveInvokesHandler(s)]
  /\ brokerCancelled' = [brokerCancelled EXCEPT ![s] = @ \/ ReceiveCancels(s, res)]
  /\ bcErrs' = [bcErrs EXCEPT ![b] =
                  IF Receive(s, res) # "nil" THEN Append(@, s) ELSE @]
  /\ UNCHANGED <<hubVars, cancelVars, serveVars, nextSub, sTopic, sKind, subPc,
                 subResult, ctxCancelled, hubCancelled, watchPc, unsubPc, unsubCalls,
                 unsubCtxDone, nextBc, bcPc, bcTopic, bcSnap>>
  /\ UNCHANGED <<connVars, sendVars, compVars>>

\* hub.go 196-203: every callback has returned. With no error unsubscribe
\* returns at once (hub.go 142-144) and the deferred RUnlock runs; else
\* unsubscribe goes for h.mu.Lock while the call still holds the read lock.
BroadcastWaited(b) ==
  /\ ~panicked /\ bcPc[b] = "running" /\ bcTodo[b] = {}
  /\ IF bcErrs[b] = <<>>
     THEN /\ bcPc' = [bcPc EXCEPT ![b] = "returned"]
          /\ readers' = readers \ {b}
     ELSE /\ bcPc' = [bcPc EXCEPT ![b] = "locking"]
          /\ readers' = readers
  /\ UNCHANGED <<broadcastings, hubClosed, writer, brSend, evNet, panicked, subVars,
                 cancelVars, serveVars, nextBc, bcTopic, bcSnap, bcTodo, bcErrs,
                 bcCalls>>
  /\ UNCHANGED <<connVars, sendVars, compVars>>

\* ------------------------------------------------------------- Cancel
\* The topics a Cancel reports as removed (hub.go 136).
CancelRemoved(topics) == topics

\* Hub.Cancel (hub.go 119-138).
Cancel(topics) ==
  /\ ~panicked /\ nextCancel <= MaxCancels /\ LockFree
  /\ cancelTopics' = [cancelTopics EXCEPT ![nextCancel] = topics]
  /\ nextCancel' = nextCancel + 1
  /\ LET present == Range(topics) \cap DOMAIN broadcastings
         subs == UNION {broadcastings[t] : t \in present}
     IN /\ hubCancelled' = [s \in SubIds |-> hubCancelled[s] \/ s \in subs]
        /\ broadcastings' = Restrict(broadcastings, DOMAIN broadcastings \ present)
  /\ IF ~hubClosed /\ Len(topics) > 0
     THEN /\ Emit([added |-> <<>>, removed |-> CancelRemoved(topics)])
          /\ writer' = <<"cancel", nextCancel>>
          /\ cancelPc' = [cancelPc EXCEPT ![nextCancel] = "sending"]
     ELSE /\ cancelPc' = [cancelPc EXCEPT ![nextCancel] = "returned"]
          /\ UNCHANGED <<writer, brSend, evNet>>
  /\ UNCHANGED <<hubClosed, readers, panicked, bcVars, serveVars, nextSub, sTopic,
                 sKind, subPc, subResult, ctxCancelled, brokerCancelled, watchPc,
                 unsubPc, unsubCalls, unsubCtxDone, handlerInvoked>>
  /\ UNCHANGED <<connVars, sendVars, compVars>>

\* ------------------------------------------------------------- Serve
\* TriggerPub without the check of broker.go 172-174.
TriggerPubReplaces(st, topic) ==
  [st EXCEPT !.cancelers = @ \cup {topic}, !.live[topic] = @ + 1]

\* TriggerPub (broker.go 169-186) on the broker's PUB bookkeeping.
TriggerPub(st, topic) ==
  IF topic \in st.cancelers
  THEN st
  ELSE [st EXCEPT !.cancelers = @ \cup {topic}, !.live[topic] = @ + 1]

\* CancelPub without the delete of broker.go 193.
CancelPubKeepsEntry(st, topic) ==
  IF topic \in st.cancelers
  THEN [st EXCEPT !.live[topic] = @ - 1]
  ELSE st

\* CancelPub without the call of the cancel function of broker.go 192.
CancelPubForgetsOnly(st, topic) ==
  IF topic \in st.cancelers
  THEN [st EXCEPT !.cancelers = @ \ {topic}]
  ELSE st

\* CancelPub (broker.go 190-195).
CancelPub(st, topic) ==
  IF topic \in st.cancelers
  THEN [st EXCEPT !.cancelers = @ \ {topic}, !.live[topic] = @ - 1]
  ELSE st

\* The loops of Serve over one change (broker.go 244-254).
RECURSIVE ServeAdded(_, _)
ServeAdded(st, added) ==
  IF added = <<>> THEN st
  ELSE ServeAdded(IF Head(added) \in st.cancelers THEN st
                  ELSE TriggerPub(st, Head(added)), Tail(added))
RECURSIVE ServeRemoved(_, _)
ServeRemoved(st, removed) ==
  IF removed = <<>> THEN st
  ELSE ServeRemoved(CancelPub(st, Head(removed)), Tail(removed))

\* Broker.Serve is called (broker.go 236-243): the goroutine that closes the
\* hub is started and Serve waits for a change.
ServeStart ==
  /\ ~panicked /\ servePc = "init"
  /\ servePc' = "recv"
  /\ closePc' = "wait"
  /\ UNCHANGED <<hubVars, subVars, bcVars, cancelVars, serveCtx,
                 pubCancelers, pubLive>>
  /\ UNCHANGED <<connVars, sendVars, compVars>>

\* The context given to Serve is cancelled by its owner.
ServeCtxCancel ==
  /\ ~panicked /\ ~serveCtx
  /\ serveCtx' = TRUE
  /\ UNCHANGED <<hubVars, subVars, bcVars, cancelVars, servePc, closePc,
                 pubCancelers, pubLive>>
  /\ UNCHANGED <<connVars, sendVars, compVars>>

\* A Close that cancels no subscription.
CloseSubscriptionsNone == {}

\* The subscriptions Close cancels (hub.go 65-69): all of every broadcasting.
CloseSubscriptions == UNION {broadcastings[t] : t \in DOMAIN broadcastings}

\* broker.go 240-241 with Hub.Close (hub.go 59-77): the context is done and the
\* goroutine closes the hub under h.mu.
Close ==
  /\ ~panicked /\ closePc = "wait" /\ serveCtx /\ LockFree
  /\ LET subs == CloseSubscriptions
     IN hubCancelled' = [s \in SubIds |-> hubCancelled[s] \/ s \in subs]
  /\ broadcastings' = <<>>
  /\ hubClosed' = TRUE
  /\ closePc' = "done"
  /\ UNCHANGED <<writer, readers, brSend, evNet, panicked, bcVars, cancelVars,
                 servePc, serveCtx, pubCancelers, pubLive, nextSub,
                 sTopic, sKind, subPc, subResult, ctxCancelled, brokerCancelled,
                 watchPc, unsubPc, unsubCalls, unsubCtxDone, handlerInvoked>>
  /\ UNCHANGED <<connVars, sendVars, compVars>>

\* One iteration of the loop of Serve (broker.go 243-255): Serve receives the
\* change a hub operation is sending and starts and cancels PUB tasks for it;
\* the sender unlocks h.mu and returns (hub.go 108-115, 137, 164).
ServeRecv ==
  /\ ~panicked /\ servePc = "recv" /\ brSend # NoEvent
  /\ brSend' = NoEvent
  /\ LET st0 == [cancelers |-> pubCancelers, live |-> pubLive]
         st1 == ServeRemoved(ServeAdded(st0, brSend.added), brSend.removed)
     IN /\ pubCancelers' = st1.cancelers
        /\ pubLive' = st1.live
  /\ writer' = NoTask
  /\ subPc' = IF writer[1] = "sub" THEN [subPc EXCEPT ![writer[2]] = "active"] ELSE subPc
  /\ watchPc' = IF writer[1] = "sub" THEN SpawnWatch(writer[2])
                ELSE IF writer[1] = "watch" THEN [watchPc EXCEPT ![writer[2]] = "done"]
                ELSE watchPc
  /\ unsubPc' = IF writer[1] = "sub" THEN SpawnUnsub(writer[2], sKind[writer[2]])
                ELSE unsubPc
  /\ bcPc' = IF writer[1] = "bc" THEN [bcPc EXCEPT ![writer[2]] = "returned"] ELSE bcPc
  /\ readers' = IF writer[1] = "bc" THEN readers \ {writer[2]} ELSE readers
  /\ cancelPc' = IF writer[1] = "cancel" THEN [cancelPc EXCEPT ![writer[2]] = "returned"]
                 ELSE cancelPc
  /\ UNCHANGED <<broadcastings, hubClosed, evNet, panicked, servePc, serveCtx, closePc,
                 nextSub, sTopic, sKind, subResult, ctxCancelled, brokerCancelled,
                 hubCancelled, unsubCalls, unsubCtxDone, handlerInvoked, nextBc,
                 bcTopic, bcSnap, bcTodo, bcErrs, bcCalls, nextCancel, cancelTopics>>
  /\ UNCHANGED <<connVars, sendVars, compVars>>

\* broker.go 243, 256: the change channel is closed, the loop ends and Serve
\* returns ctx.Err().
ServeReturn ==
  /\ ~panicked /\ servePc = "recv" /\ hubClosed /\ brSend = NoEvent
  /\ servePc' = "returned"
  /\ UNCHANGED <<hubVars, subVars, bcVars, cancelVars, serveCtx, closePc,
                 pubCancelers, pubLive>>
  /\ UNCHANGED <<connVars, sendVars, compVars>>

\* ------------------------------------------------------------- Conn
\* The messages of connections.go 163, 175, 179.
Confirmation(id) == [type |-> "confirm_subscription", identifier |-> id]
Rejection(id) == [type |-> "reject_subscription", identifier |-> id]

\* A connection that takes no identifier for subscribed.
NeverSubscribed(unsub, id) == FALSE

\* connections.go 161: the identifier has a recorded cancel function.
AlreadySubscribed(unsub, id) == id \in DOMAIN unsub

\* ChannelDispatcher.parseSubIdentifier (part_003 39-52) and the checkers of
\* NewChannel (actioncable-channel.go 52-56): the error for what the
\* identifier checkers say.
parseSubIdentifier(chk) == IF chk = "fail" THEN "err" ELSE "nil"

\* Channel.Subscribe of the Turbo Streams channel (actioncable-channel.go
\* 70-88): the error it returns, given whether Broker.Subscribe returned a nil
\* channel. The channel made by the factory has the identifier of the
\* subscription, and the result of the subscriber is only waited for.
ChannelSubscribe(finishedIsNil) == "nil"

\* HandleSubscription (part_003 56-90) gets as far as channel.Subscribe: the
\* identifier has a channel, or it passes the checks (the factory of the Turbo
\* Streams channel is registered).
ReachesChannel(chans, id, chk) == id \in chans \/ parseSubIdentifier(chk) = "nil"

\* A dispatcher that stores the channel whatever happened.
HandleSubscriptionStores(chans, id, e) == chans \cup {id}

\* A dispatcher that keeps the binding when the re-subscription fails.
HandleSubscriptionKeeps(chans, id, e) == IF e = "nil" THEN chans \cup {id} ELSE chans

\* d.channels when HandleSubscription returns e (part_003 59-61, 85-89).
HandleSubscriptionChannels(chans, id, e) ==
  IF e = "nil" THEN chans \cup {id} ELSE chans \ {id}

\* A connection that records the cancel function whatever the handler returns.
RecordAlways(unsub, id, s, e) == (id :> s) @@ unsub

\* c.unsubscribers when HandleSubscription returned e (connections.go 168-178).
SubscribeRecord(unsub, id, s, e) == IF e = "nil" THEN (id :> s) @@ unsub ELSE unsub

\* Hub.Subscribe will stay in the send of hub.go 107.
SubscribeBlocks(topic, r) ==
  TriggerSub(r) = "nil" /\ ~hubClosed /\ topic \notin DOMAIN broadcastings

\* Conn.subscribe from the return of HandleSubscription with e to the send on
\* toClient (connections.go 168-179).
ConnHandled(id, s, e) ==
  /\ channels' = HandleSubscriptionChannels(channels, id, e)
  /\ unsubscribers' = SubscribeRecord(unsubscribers, id, s, e)
  /\ toClient' = IF e = "nil" THEN Confirmation(id) ELSE Rejection(id)
  /\ confirms' = [confirms EXCEPT ![id] = IF e = "nil" THEN @ + 1 ELSE @]
  /\ rejects' = [rejects EXCEPT ![id] = IF e = "nil" THEN @ ELSE @ + 1]
  /\ lastOutcome' = [lastOutcome EXCEPT ![id] = IF e = "nil" THEN "accepted" ELSE "rejected"]
  /\ cctx' = IF e = "nil" THEN "recorded" ELSE "live"
  /\ connPc' = "sending"

\* receiveAll reads a command (connections.go 235-258): the context is not
\* done and the client sends one.
ReadCommand(cmd, id) ==
  /\ ~panicked /\ connPc = "read" /\ ~egCancelled /\ nCmds < MaxCommands
  /\ nCmds' = nCmds + 1
  /\ curCmd' = [cmd |-> cmd, identifier |-> id]

\* A subscribe command (connections.go 160-181, part_003 56-90,
\* actioncable-channel.go 70-88, broker.go 202-225), up to the first point
\* where it blocks: the send on toClient, or the send of hub.go 107.
ConnSubscribe(id, chk, r) ==
  /\ ReadCommand("subscribe", id)
  /\ subCmds' = [subCmds EXCEPT ![id] = @ + 1]
  /\ IF AlreadySubscribed(unsubscribers, id)
     THEN /\ toClient' = Confirmation(id)
          /\ confirms' = [confirms EXCEPT ![id] = @ + 1]
          /\ connPc' = "sending"
          /\ UNCHANGED <<hubVars, subVars, bcVars, cancelVars, serveVars, unsubscribers,
                         channels, curSub, cctx, handleCalls, rejects, lastOutcome>>
     ELSE /\ handleCalls' = [handleCalls EXCEPT ![id] = @ + 1]
          /\ IF ~ReachesChannel(channels, id, chk)
             THEN /\ curSub' = 0
                  /\ ConnHandled(id, 0, "err")
                  /\ UNCHANGED <<hubVars, subVars, bcVars, cancelVars, serveVars>>
             ELSE /\ curSub' = nextSub
                  /\ BrokerSubscribeOp(parseStreamName(id), r)
                  /\ IF SubscribeBlocks(parseStreamName(id), r)
                     THEN /\ connPc' = "hubSend"
                          /\ cctx' = "live"
                          /\ UNCHANGED <<toClient, unsubscribers, channels, confirms,
                                         rejects, lastOutcome>>
                     ELSE ConnHandled(id, nextSub, ChannelSubscribe(TriggerSub(r) # "nil"))
  /\ UNCHANGED <<connErr, sendPc, egCancelled, serveOutVars, closeVars>>
  /\ UNCHANGED <<sendVars, compVars>>

\* Hub.Subscribe has returned (hub.go 108-115): the subscribe command goes on
\* to its send on toClient.
ConnResume ==
  /\ ~panicked /\ connPc = "hubSend" /\ subPc[curSub] = "active"
  /\ ConnHandled(curCmd.identifier, curSub, ChannelSubscribe(FALSE))
  /\ UNCHANGED <<hubVars, subVars, bcVars, cancelVars, serveVars, connErr, sendPc,
                 egCancelled, nCmds, curCmd, curSub, handleCalls, subCmds,
                 serveOutVars, closeVars>>
  /\ UNCHANGED <<sendVars, compVars>>

\* An unsubscribe command that also removes the dispatcher's binding.
ConnUnsubscribeForgets(id) ==
  /\ ReadCommand("unsubscribe", id)
  /\ channels' = channels \ {id}
  /\ lastOutcome' = [lastOutcome EXCEPT ![id] = "unsubscribed"]
  /\ IF id \in DOMAIN unsubscribers
     THEN /\ ctxCancelled' = [s \in SubIds |-> ctxCancelled[s] \/ s = unsubscribers[id]]
          /\ unsubscribers' = Restrict(unsubscribers, DOMAIN unsubscribers \ {id})
     ELSE UNCHANGED <<ctxCancelled, unsubscribers>>
  /\ UNCHANGED <<hubVars, bcVars, cancelVars, serveVars, nextSub, sTopic, sKind, subPc,
                 subResult, brokerCancelled, hubCancelled, watchPc, unsubPc, unsubCalls,
                 unsubCtxDone, handlerInvoked, connPc, connErr, sendPc, egCancelled,
                 toClient, curSub, cctx, handleCalls, confirms, rejects,
                 subCmds, serveOutVars, closeVars>>
  /\ UNCHANGED <<sendVars, compVars>>

\* An unsubscribe command (connections.go 190-196).
ConnUnsubscribe(id) ==
  /\ ReadCommand("unsubscribe", id)
  /\ lastOutcome' = [lastOutcome EXCEPT ![id] = "unsubscribed"]
  /\ IF id \in DOMAIN unsubscribers
     THEN /\ ctxCancelled' = [s \in SubIds |-> ctxCancelled[s] \/ s = unsubscribers[id]]
          /\ unsubscribers' = Restrict(unsubscribers, DOMAIN unsubscribers \ {id})
     ELSE UNCHANGED <<ctxCancelled, unsubscribers>>
  /\ UNCHANGED <<hubVars, bcVars, cancelVars, serveVars, nextSub, sTopic, sKind, subPc,
                 subResult, brokerCancelled, hubCancelled, watchPc, unsubPc, unsubCalls,
                 unsubCtxDone, handlerInvoked, connPc, connErr, sendPc, egCancelled,
                 toClient, channels, curSub, cctx, handleCalls, confirms, rejects,
                 subCmds, serveOutVars, closeVars>>
  /\ UNCHANGED <<sendVars, compVars>>

\* The errgroup of Conn.Serve keeps the first non-nil error a task returns
\* (connections.go 354-361).
EgFirst(first, err) == IF first = None THEN err ELSE first
\* sendAll has received a message from toClient (connections.go 336-340): with
\* its context done it returns ctx.Err(); the sender of a rejection returns its
\* error (connections.go 174-176); when both return, either can be first.
EgAfterDeliver(first, ctxDone, rejection) ==
  IF first # None THEN {first}
  ELSE IF ctxDone /\ rejection THEN {"canceled", "subscribe"}
  ELSE IF ctxDone THEN {"canceled"}
  ELSE IF rejection THEN {"subscribe"}
  ELSE {None}

\* Channel.Perform of the Turbo Streams channel (actioncable-channel.go 91-93)
\* and HandleAction (part_003 93-99).
Perform == "err"
\* A HandleAction that accepts every action.
HandleActionAccepts(chans, id) == "nil"

HandleAction(chans, id) == IF id \notin chans THEN "err" ELSE Perform

\* An action command (connections.go 197-201): an error of the handler ends
\* receiveAll, and with it the context of the errgroup.
ConnAction(id) ==
  /\ ReadCommand("action", id)
  /\ IF HandleAction(channels, id) = "nil"
     THEN UNCHANGED <<connPc, connErr, egCancelled, egErr>>
     ELSE /\ connPc' = "returned"
          /\ connErr' = "action"
          /\ egCancelled' = TRUE
          /\ egErr' = EgFirst(egErr, "action")
  /\ UNCHANGED <<hubVars, subVars, bcVars, cancelVars, serveVars, sendPc, toClient,
                 unsubscribers, channels, curSub, cctx, handleCalls, confirms, rejects,
                 lastOutcome, subCmds, connCtx, connServe, closeVars>>
  /\ UNCHANGED <<sendVars, compVars>>

\* The context given to Conn.Serve is cancelled by its owner.
ConnCtxCancel ==
  /\ ~panicked /\ ~egCancelled
  /\ egCancelled' = TRUE
  /\ connCtx' = TRUE
  /\ UNCHANGED <<hubVars, subVars, bcVars, cancelVars, serveVars, connPc, connErr,
                 sendPc, toClient, unsubscribers, channels, nCmds, curCmd, curSub, cctx,
                 handleCalls, confirms, rejects, lastOutcome, subCmds, egErr, connServe,
                 closeVars>>
  /\ UNCHANGED <<sendVars, compVars>>

\* receiveAll finds its context done (connections.go 244-250, 255-257).
ReceiveReturn ==
  /\ ~panicked /\ connPc = "read" /\ egCancelled
  /\ connPc' = "returned"
  /\ connErr' = "ctx"
  /\ egErr' = EgFirst(egErr, "canceled")
  /\ UNCHANGED <<hubVars, subVars, bcVars, cancelVars, serveVars, sendPc, egCancelled,
                 toClient, unsubscribers, channels, nCmds, curCmd, curSub, cctx,
                 handleCalls, confirms, rejects, lastOutcome, subCmds, connCtx,
                 connServe, closeVars>>
  /\ UNCHANGED <<sendVars, compVars>>

\* The read of receiveAll fails (connections.go 207-210, 239, 250-253): the
\* error, the raw one for a normal close, ends receiveAll and with it the
\* context of the errgroup.
ReadError(kind) ==
  /\ ~panicked /\ connPc = "read"
  /\ connPc' = "returned"
  /\ connErr' = kind
  /\ egCancelled' = TRUE
  /\ egErr' = EgFirst(egErr, kind)
  /\ UNCHANGED <<hubVars, subVars, bcVars, cancelVars, serveVars, sendPc,
                 toClient, unsubscribers, channels, nCmds, curCmd, curSub, cctx,
                 handleCalls, confirms, rejects, lastOutcome, subCmds, connCtx,
                 connServe, closeVars>>
  /\ UNCHANGED <<sendVars, compVars>>

\* A write that puts the frame before those already written.
WriteFrameFirst(w, type) == <<type>> \o w

\* writeAsMarshaled and writeMessage (connections.go 275-292) on the frames the
\* websocket has carried: the frame follows those written before.
WriteFrame(w, type) == Append(w, type)

\* sendAll writes the welcome message (connections.go 308-313).
SendWelcome ==
  /\ ~panicked /\ sendPc = "welcome"
  /\ sendPc' = "loop"
  /\ UNCHANGED <<hubVars, subVars, bcVars, cancelVars, serveVars, connPc, connErr,
                 egCancelled, toClient, unsubscribers, channels, nCmds, curCmd, curSub,
                 cctx, handleCalls, confirms, rejects, lastOutcome, subCmds,
                 serveOutVars, closeVars>>
  /\ wire' = WriteFrame(wire, "welcome")
  /\ UNCHANGED <<pings, stVars, compVars>>

\* sendAll receives from toClient (connections.go 335-345); with its context
\* done it returns, else it writes the message. The sender goes on: after a
\* confirmation subscribe returns nil and receiveAll reads again; after a
\* rejection subscribe cancels the derived context and returns the error,
\* which receive and receiveAll return (connections.go 176-177, 189, 258-260).
SendDeliver ==
  /\ ~panicked /\ sendPc = "loop" /\ toClient # NoMsg
  /\ toClient' = NoMsg
  /\ sendPc' = IF egCancelled THEN "returned" ELSE "loop"
  /\ IF toClient.type = "reject_subscription"
     THEN /\ cctx' = "cancelled"
          /\ connPc' = "returned"
          /\ connErr' = "subscribe"
          /\ egCancelled' = TRUE
     ELSE /\ connPc' = "read"
          /\ UNCHANGED <<cctx, connErr, egCancelled>>
  /\ egErr' \in EgAfterDeliver(egErr, egCancelled, toClient.type = "reject_subscription")
  /\ UNCHANGED <<hubVars, subVars, bcVars, cancelVars, serveVars, unsubscribers,
                 channels, nCmds, curCmd, curSub, handleCalls, confirms, rejects,
                 lastOutcome, subCmds, connCtx, connServe, closeVars>>
  /\ wire' = IF egCancelled THEN wire ELSE WriteFrame(wire, toClient.type)
  /\ UNCHANGED <<pings, stVars, compVars>>

\* sendAll finds its context done (connections.go 316-318).
SendReturn ==
  /\ ~panicked /\ sendPc = "loop" /\ egCancelled
  /\ sendPc' = "returned"
  /\ egErr' = EgFirst(egErr, "canceled")
  /\ UNCHANGED <<hubVars, subVars, bcVars, cancelVars, serveVars, connPc, connErr,
                 egCancelled, toClient, unsubscribers, channels, nCmds, curCmd, curSub,
                 cctx, handleCalls, confirms, rejects, lastOutcome, subCmds, connCtx,
                 connServe, closeVars>>
  /\ UNCHANGED <<sendVars, compVars>>

\* ------------------------------------------------------------- SendText
\* The write of the welcome message fails (connections.go 310-312): sendAll
\* returns the error, which ends the context of the errgroup.
SendWelcomeFails ==
  /\ ~panicked /\ sendPc = "welcome"
  /\ sendPc' = "returned"
  /\ egCancelled' = TRUE
  /\ egErr' = EgFirst(egErr, "writeErr")
  /\ UNCHANGED <<hubVars, subVars, bcVars, cancelVars, serveVars, connPc, connErr,
                 toClient, unsubscribers, channels, nCmds, curCmd, curSub, cctx,
                 handleCalls, confirms, rejects, lastOutcome, subCmds, connCtx,
                 connServe, closeVars, sendVars, compVars>>

\* A ticker of sendAll fires (connections.go 318-335): with the context done
\* sendAll returns, else it writes the ping.
SendPing(kind) ==
  /\ ~panicked /\ sendPc = "loop" /\ pings < MaxPings
  /\ pings' = pings + 1
  /\ sendPc' = IF egCancelled THEN "returned" ELSE "loop"
  /\ egErr' = IF egCancelled THEN EgFirst(egErr, "canceled") ELSE egErr
  /\ wire' = IF egCancelled THEN wire ELSE WriteFrame(wire, kind)
  /\ UNCHANGED <<hubVars, subVars, bcVars, cancelVars, serveVars, connPc, connErr,
                 egCancelled, toClient, unsubscribers, channels, nCmds, curCmd, curSub,
                 cctx, handleCalls, confirms, rejects, lastOutcome, subCmds, connCtx,
                 connServe, closeVars, stVars, compVars>>

\* Subscription.SendText or SendBytes is called (subscriptions.go 20-21, 44-45)
\* and waits in its select.
SendText(k) ==
  /\ ~panicked /\ stPc[k] = "idle"
  /\ stPc' = [stPc EXCEPT ![k] = "select"]
  /\ UNCHANGED <<hubVars, subVars, bcVars, cancelVars, serveVars, connVars, wire, pings,
                 stCtx, stRes, stEnq, compVars>>

\* The context given to the call is cancelled by its owner.
SendTextCtxCancel(k) ==
  /\ ~panicked /\ ~stCtx[k] /\ stPc[k] # "returned"
  /\ stCtx' = [stCtx EXCEPT ![k] = TRUE]
  /\ UNCHANGED <<hubVars, subVars, bcVars, cancelVars, serveVars, connVars, wire, pings,
                 stPc, stRes, stEnq, compVars>>

\* The select takes the case of the done context (subscriptions.go 22-23,
\* 46-47): the call returns ctx.Err() and nothing is sent.
SendTextCtxDone(k) ==
  /\ ~panicked /\ stPc[k] = "select" /\ stCtx[k]
  /\ stPc' = [stPc EXCEPT ![k] = "returned"]
  /\ stRes' = [stRes EXCEPT ![k] = "canceled"]
  /\ UNCHANGED <<hubVars, subVars, bcVars, cancelVars, serveVars, connVars, wire, pings,
                 stCtx, stEnq, compVars>>

\* What the call returns once its message is sent (subscriptions.go 25-38,
\* 55-59).
SendTextSent(ctxDone) == IF ctxDone THEN "canceled" ELSE "nil"

\* The select takes the send case (subscriptions.go 24, 48), which it can
\* whenever sendAll receives (connections.go 336), the context done or not:
\* sendAll has the message, and writes it unless its own context is done
\* (connections.go 337-345); the call returns after its check of the context.
SendTextDeliver(k) ==
  /\ ~panicked /\ stPc[k] = "select" /\ sendPc = "loop"
  /\ stPc' = [stPc EXCEPT ![k] = "returned"]
  /\ stEnq' = [stEnq EXCEPT ![k] = TRUE]
  /\ stRes' = [stRes EXCEPT ![k] = SendTextSent(stCtx[k])]
  /\ sendPc' = IF egCancelled THEN "returned" ELSE "loop"
  /\ egErr' = IF egCancelled THEN EgFirst(egErr, "canceled") ELSE egErr
  /\ wire' = IF egCancelled THEN wire ELSE WriteFrame(wire, "data")
  /\ UNCHANGED <<hubVars, subVars, bcVars, cancelVars, serveVars, connPc, connErr,
                 egCancelled, toClient, unsubscribers, channels, nCmds, curCmd, curSub,
                 cctx, handleCalls, confirms, rejects, lastOutcome, subCmds, connCtx,
                 connServe, closeVars, pings, stCtx, compVars>>

\* isNormalClose (connections.go 28-30).
isNormalClose(err) == err = "normalClose"

\* Serve with context cancellation suppressed as well.
ServeResultSuppressesCancel(err) ==
  IF err = None \/ isNormalClose(err) \/ err = "canceled" THEN "nil" ELSE err

\* What Conn.Serve returns for the result of eg.Wait (connections.go 361-367).
ServeResult(err) == IF err = None \/ isNormalClose(err) THEN "nil" ELSE err

\* eg.Wait returns once receiveAll and sendAll have returned, and Conn.Serve
\* returns (connections.go 361-367).
ConnServeReturn ==
  /\ ~panicked /\ connPc = "returned" /\ sendPc = "returned" /\ connServe = None
  /\ connServe' = ServeResult(egErr)
  /\ UNCHANGED <<hubVars, subVars, bcVars, cancelVars, serveVars, connPc, connErr,
                 sendPc, egCancelled, toClient, unsubscribers, channels, nCmds, curCmd,
                 curSub, cctx, handleCalls, confirms, rejects, lastOutcome, subCmds,
                 connCtx, egErr, closeVars>>
  /\ UNCHANGED <<sendVars, compVars>>

\* newDisconnect (part_002 84-90).
newDisconnect(reason, allowReconnect) ==
  [type |-> "disconnect", reason |-> reason, reconnect |-> allowReconnect]

\* A sanitizer that passes the error on.
passingSanitizer(err) == err

\* defaultErrorSanitizer (connections.go 78-88).
defaultErrorSanitizer(err) ==
  IF err = "nil" THEN ""
  ELSE IF err = "canceled" THEN "logged out"
  ELSE "server or client error"

\* Conn.Close is called, after Conn.Serve has completed, and runs disconnect
\* (connections.go 124-139, 148): every recorded cancel function is called,
\* the map is replaced by an empty one and the disconnect message is written,
\* the result of the write being dropped.
disconnect(err, ok) ==
  /\ ~panicked /\ connServe # None /\ connClosePc = "idle"
  /\ ctxCancelled' = [s \in SubIds |->
                        ctxCancelled[s] \/ \E id \in DOMAIN unsubscribers : unsubscribers[id] = s]
  /\ unsubscribers' = <<>>
  /\ lastOutcome' = [id \in Identifiers |->
                        IF id \in DOMAIN unsubscribers THEN "unsubscribed"
                        ELSE lastOutcome[id]]
  /\ closeErr' = err
  /\ disconnectFrame' = newDisconnect(defaultErrorSanitizer(err), FALSE)
  /\ disconnectWritten' = ok
  /\ connClosePc' = "disconnected"
  /\ UNCHANGED <<hubVars, bcVars, cancelVars, serveVars, nextSub, sTopic, sKind, subPc,
                 subResult, brokerCancelled, hubCancelled, watchPc, unsubPc, unsubCalls,
                 unsubCtxDone, handlerInvoked, connPc, connErr, sendPc, egCancelled,
                 toClient, channels, nCmds, curCmd, curSub, cctx, handleCalls, confirms,
                 rejects, subCmds, serveOutVars>>
  /\ UNCHANGED <<sendVars, compVars>>

\* The rest of Conn.Close (connections.go 149-151): the close message is
\* written, the result dropped, and the websocket is closed.
ConnClose ==
  /\ ~panicked /\ connClosePc = "disconnected"
  /\ connClosePc' = "closed"
  /\ UNCHANGED <<hubVars, subVars, bcVars, cancelVars, serveVars, connPc, connErr,
                 sendPc, egCancelled, toClient, unsubscribers, channels, nCmds, curCmd,
                 curSub, cctx, handleCalls, confirms, rejects, lastOutcome, subCmds,
                 serveOutVars, closeErr, disconnectFrame, disconnectWritten>>
  /\ UNCHANGED <<sendVars, compVars>>

\* ------------------------------------------------------------- dispatcher
\* ChannelDispatcher.HandleSubscription (part_003 56-90) for any factories and
\* channels: what it returns and which calls it makes, given whether the
\* identifier has a channel, what the checkers say, whether a factory is
\* registered for the channel name, and what the factory and the channel's
\* Subscribe return.
HandleSubscription(chans, id, chk, fac, made, sub) ==
  LET call == [id |-> id, chk |-> chk, fac |-> fac, made |-> made, sub |-> sub,
               err |-> "err", factoryCalled |-> FALSE, subscribeCalled |-> FALSE]
  IN IF id \in chans
     THEN [call EXCEPT !.err = sub, !.subscribeCalled = TRUE]
     ELSE IF parseSubIdentifier(chk) # "nil" \/ ~fac THEN call
     ELSE IF made # "nil" THEN [call EXCEPT !.factoryCalled = TRUE]
     ELSE [call EXCEPT !.err = sub, !.factoryCalled = TRUE, !.subscribeCalled = TRUE]

\* One HandleSubscription call on the dispatcher.
DispHandleSubscription(id, chk, fac, made, sub) ==
  /\ dCalls < MaxDispatch
  /\ dCalls' = dCalls + 1
  /\ dLast' = HandleSubscription(dChannels, id, chk, fac, made, sub)
  /\ dChannels' = HandleSubscriptionChannels(dChannels, id, dLast'.err)
  /\ UNCHANGED <<hubVars, subVars, bcVars, cancelVars, serveVars, connVars, sendVars,
                 cancVars, routerVars, signVars, pubVars, chanVars>>

NextDisp ==
  \E id \in Identifiers, chk \in CheckResults, fac \in BOOLEAN,
     made \in ReceiveResults, sub \in ReceiveResults :
    DispHandleSubscription(id, chk, fac, made, sub)

SpecDisp == Init /\ [][NextDisp]_vars

\* ------------------------------------------------------------- MSG
\* triggerMsg (part_007 130-145): the error it returns for what the MSG
\* handler returned.
triggerMsg(msg) == IF msg # "nil" /\ msg # "canceled" THEN "err" ELSE "nil"

\* The broadcast handler turbostreams.Broker.Subscribe gives to
\* Broker.Subscribe (part_007 167-174): what it returns and whether it passes
\* the rendered output to the message consumer, for what the MSG handler and
\* the consumer return.
msgCallback(msg, send) ==
  IF triggerMsg(msg) # "nil"
  THEN [err |-> "err", consumed |-> FALSE]
  ELSE [err |-> send, consumed |-> TRUE]

\* ------------------------------------------------------------- Cancellers
\* An Add that replaces what was recorded under the id.
CancellersAddReplaces(funcs, id, f) == (id :> <<f>>) @@ funcs

\* cancellation.go 31: c.funcs[id] = append(c.funcs[id], canceller).
CancellersAdd(funcs, id, f) ==
  (id :> Append(IF id \in DOMAIN funcs THEN funcs[id] ELSE <<>>, f)) @@ funcs

\* Add or Cancel is called for the id and gets c.m (cancellation.go 28, 36).
CancellersLock(op, id) ==
  /\ cHolder = NoTask
  /\ IF op = "add"
     THEN /\ cNext <= MaxAdds
          /\ cHolder' = <<"add", cNext>>
          /\ cKey' = [cKey EXCEPT ![cNext] = id]
          /\ cNext' = cNext + 1
          /\ UNCHANGED cCancels
     ELSE /\ cCancels < MaxKeyCancels
          /\ cHolder' = <<"cancel", id>>
          /\ cCancels' = cCancels + 1
          /\ UNCHANGED <<cKey, cNext>>
  /\ UNCHANGED <<hubVars, subVars, bcVars, cancelVars, serveVars, connVars, sendVars,
                 dispVars, routerVars, signVars, pubVars, chanVars, cFuncs, cInvoked>>

\* The call holding c.m runs and unlocks: Add appends (cancellation.go 29-31),
\* Cancel invokes every function of the id and deletes the entry
\* (cancellation.go 37-42).
CancellersRun ==
  /\ cHolder # NoTask
  /\ cHolder' = NoTask
  /\ IF cHolder[1] = "add"
     THEN /\ cFuncs' = CancellersAdd(cFuncs, cKey[cHolder[2]], cHolder[2])
          /\ UNCHANGED cInvoked
     ELSE LET id == cHolder[2]
              fs == IF id \in DOMAIN cFuncs THEN cFuncs[id] ELSE <<>>
          IN /\ cInvoked' = [f \in FuncIds |-> cInvoked[f] + Count(fs, f)]
             /\ cFuncs' = Restrict(cFuncs, DOMAIN cFuncs \ {id})
  /\ UNCHANGED <<hubVars, subVars, bcVars, cancelVars, serveVars, connVars, sendVars,
                 dispVars, routerVars, signVars, pubVars, chanVars, cNext, cCancels, cKey>>

NextCanc ==
  \/ \E op \in {"add", "cancel"}, id \in CancIds : CancellersLock(op, id)
  \/ CancellersRun

SpecCanc == Init /\ [][NextCanc]_vars

\* ---------------------------------------------------------- HandlerRouter
\* node.findStaticChild (broker-router.go 162-170): the first static child
\* whose label, the first character of its prefix, is l; 0 for nil.
findStaticChild(tree, n, l) ==
  LET hits == {i \in 1..Len(n.staticChildren) :
                 tree[n.staticChildren[i]].prefix[1] = l}
  IN IF hits = {} THEN 0
     ELSE n.staticChildren[CHOOSE i \in hits : \A j \in hits : i <= j]

\* An addMethod that keeps the handler a method already has on the node.
addMethodKeepsFirst(n, method, rm) ==
  IF method \in DOMAIN n.methods /\ n.methods[method].handler # "nil" THEN n
  ELSE [n EXCEPT !.methods = (method :> rm) @@ n.methods,
                 !.isHandler = TRUE]

\* node.addMethod (broker-router.go 186-198) with routeMethods.set (31-49) and
\* isHandler (27-29): the methods of a node are the non-nil pointers it holds.
\* The RouteNotFound method is not among the modelled methods.
addMethod(n, method, rm) ==
  LET set == IF method \in {"PUB", "SUB", "UNSUB"}
             THEN (method :> rm) @@ n.methods
             ELSE IF rm.handler = "nil"
                  THEN Restrict(n.methods, DOMAIN n.methods \ {method})
                  ELSE (method :> rm) @@ n.methods
  IN [n EXCEPT !.methods = set,
               !.isHandler = IF rm.handler # "nil" THEN TRUE ELSE DOMAIN set # {}]

\* HandlerRouter.insert (broker-router.go 286-429), from the node cur with
\* search left of the path; a call starts at the root with the whole path.
RECURSIVE insert(_, _, _, _, _, _)
insert(r, cur, search, method, t, rm) ==
  LET tree == r.tree
      leaf(x) == x.staticChildren = <<>> /\ x.paramChild = 0 /\ x.anyChild = 0
      withRm(x) == [addMethod(x, method, rm) EXCEPT !.paramsCount = Len(rm.pnames),
                                                    !.originalPath = rm.ppath]
      inserted ==
        LET n == tree[cur]
            searchLen == Len(search)
            prefixLen == Len(n.prefix)
            max == IF searchLen < prefixLen THEN searchLen ELSE prefixLen
            lcpLen == CHOOSE l \in 0..max :
                        /\ \A i \in 1..l : search[i] = n.prefix[i]
                        /\ (l < max => search[l + 1] # n.prefix[l + 1])
            newNode(k, pre, sc, op, ms, pcnt, pc, ac) ==
              [kind |-> k, prefix |-> pre, parent |-> cur, staticChildren |-> sc,
               originalPath |-> op, methods |-> ms, paramsCount |-> pcnt,
               paramChild |-> pc, anyChild |-> ac,
               isLeaf |-> sc = <<>> /\ pc = 0 /\ ac = 0, isHandler |-> DOMAIN ms # {}]
        IN IF lcpLen = 0 THEN
             \* at the root node
             LET a == [n EXCEPT !.prefix = search]
                 b == IF rm.handler # "nil" THEN [withRm(a) EXCEPT !.kind = t] ELSE a
             IN [tree EXCEPT ![cur] = [b EXCEPT !.isLeaf = leaf(b)]]
           ELSE IF lcpLen < prefixLen THEN
             \* split the node in two
             LET id == Len(tree) + 1
                 child == newNode(n.kind, SubSeq(n.prefix, lcpLen + 1, prefixLen),
                                  n.staticChildren, n.originalPath, n.methods,
                                  n.paramsCount, n.paramChild, n.anyChild)
                 moved == Range(n.staticChildren) \cup ({n.paramChild, n.anyChild} \ {0})
                 \* the tree with the node p in place of n, the children of n
                 \* under the node id, and the nodes added after it
                 split(p, added) ==
                   [i \in 1..Len(tree) |->
                      IF i = cur THEN p
                      ELSE IF i \in moved THEN [tree[i] EXCEPT !.parent = id]
                      ELSE tree[i]] \o added
                 reset == [kind |-> staticKind, prefix |-> SubSeq(n.prefix, 1, lcpLen),
                           parent |-> n.parent, staticChildren |-> <<id>>,
                           originalPath |-> <<>>, methods |-> <<>>, paramsCount |-> 0,
                           paramChild |-> 0, anyChild |-> 0, isLeaf |-> FALSE,
                           isHandler |-> FALSE]
             IN IF lcpLen = searchLen THEN
                  \* at the parent node: addMethod whatever rm.handler is
                  LET p == withRm([reset EXCEPT !.kind = t])
                  IN split([p EXCEPT !.isLeaf = leaf(p)], <<child>>)
                ELSE
                  LET c == newNode(t, SubSeq(search, lcpLen + 1, searchLen), <<>>,
                                   <<>>, <<>>, 0, 0, 0)
                      p == [reset EXCEPT !.staticChildren = <<id, id + 1>>]
                  IN split(p, <<child, IF rm.handler # "nil" THEN withRm(c) ELSE c>>)
           ELSE IF lcpLen < searchLen THEN
             LET rest == SubSeq(search, lcpLen + 1, searchLen)
                 static == findStaticChild(tree, n, rest[1])
                 \* node.findChildWithLabel (broker-router.go 172-183)
                 c == IF static # 0 THEN static
                      ELSE IF rest[1] = ":" THEN n.paramChild
                      ELSE IF rest[1] = "*" THEN n.anyChild
                      ELSE 0
             IN IF c # 0 THEN insert(r, c, rest, method, t, rm).tree
                ELSE
                  LET id == Len(tree) + 1
                      c0 == newNode(t, rest, <<>>, rm.ppath, <<>>, 0, 0, 0)
                      c1 == IF rm.handler # "nil"
                            THEN [addMethod(c0, method, rm)
                                    EXCEPT !.paramsCount = Len(rm.pnames)]
                            ELSE c0
                      p == IF t = staticKind
                           THEN [n EXCEPT !.staticChildren = Append(@, id)]
                           ELSE IF t = paramKind THEN [n EXCEPT !.paramChild = id]
                           ELSE [n EXCEPT !.anyChild = id]
                  IN Append([tree EXCEPT ![cur] = [p EXCEPT !.isLeaf = leaf(p)]], c1)
           ELSE
             \* the node already exists
             IF rm.handler # "nil" THEN [tree EXCEPT ![cur] = withRm(n)] ELSE tree
  IN [tree |-> inserted,
      maxParam |-> IF r.maxParam < Len(rm.pnames) THEN Len(rm.pnames) ELSE r.maxParam]

\* The path that Add registers (broker-router.go 243-248).
ValidPath(path) ==
  IF path = <<>> THEN <<"/">>
  ELSE IF path[1] # "/" THEN <<"/">> \o path
  ELSE path

\* HandlerRouter.Add (broker-router.go 240-284) from the index i of its loop
\* over the validated path; i and lcpIndex count from 0 as in the code, and a
\* call starts with the pristine path, no parameter names and i = 0.
RECURSIVE Add(_, _, _, _, _, _, _, _)
Add(r, method, path, ppath, pnames, i, lcpIndex, h) ==
  LET NoRM == [ppath |-> <<>>, pnames |-> <<>>, handler |-> "nil"]
  IN
        IF i >= lcpIndex
        THEN insert(r, 1, path, method, staticKind,
                    [ppath |-> ppath, pnames |-> pnames, handler |-> h])
        ELSE IF path[i + 1] = ":" THEN
          IF i > 0 /\ path[i] = "\\"
          THEN Add(r, method,
                   SubSeq(path, 1, i - 1) \o SubSeq(path, i + 1, Len(path)),
                   ppath, pnames, i, lcpIndex - 1, h)
          ELSE
            LET j == i + 1
                r1 == insert(r, 1, SubSeq(path, 1, i), method, staticKind, NoRM)
                ends == {k \in i..(lcpIndex - 1) : path[k + 1] = "/"}
                e == IF ends = {} THEN lcpIndex
                     ELSE CHOOSE k \in ends : \A k2 \in ends : k <= k2
                pnames2 == Append(pnames, SubSeq(path, j + 1, e))
                path2 == SubSeq(path, 1, j) \o SubSeq(path, e + 1, Len(path))
                r2 == IF j = Len(path2)
                      THEN insert(r1, 1, SubSeq(path2, 1, j), method, paramKind,
                                  [ppath |-> ppath, pnames |-> pnames2, handler |-> h])
                      ELSE insert(r1, 1, SubSeq(path2, 1, j), method, paramKind, NoRM)
            IN Add(r2, method, path2, ppath, pnames2, j + 1, Len(path2), h)
        ELSE IF path[i + 1] = "*" THEN
          LET r1 == insert(r, 1, SubSeq(path, 1, i), method, staticKind, NoRM)
              pnames2 == Append(pnames, <<"*">>)
              r2 == insert(r1, 1, SubSeq(path, 1, i + 1), method, anyKind,
                           [ppath |-> ppath, pnames |-> pnames2, handler |-> h])
          IN Add(r2, method, path, ppath, pnames2, i + 1, lcpIndex, h)
        ELSE Add(r, method, path, ppath, pnames, i + 1, lcpIndex, h)

\* HandlerRouter.Find (broker-router.go 433-663) on the context ctx.  The
\* loop is followed from its top and from its Param and Any labels; indexes
\* count from 0 as in the code, and an index out of range or a nil node
\* dereferenced is the outcome "panic".
Find(r, method, path, ctx) ==
  LET tree == r.tree
      \* backtrackToNextNodeKind (broker-router.go 457-487)
      backtrack(st, fromKind) ==
        LET previous == tree[st.cur]
            nextNodeKind == IF previous.kind = anyKind THEN staticKind
                            ELSE previous.kind + 1
            moved == [st EXCEPT !.cur = previous.parent]
            restored ==
              IF fromKind = staticKind THEN moved
              ELSE IF previous.kind = staticKind
              THEN LET si == st.searchIndex - Len(previous.prefix)
                   IN IF si < 0 THEN [moved EXCEPT !.exit = "panic"]
                      ELSE [moved EXCEPT !.searchIndex = si,
                                         !.search = SubSeq(path, si + 1, Len(path))]
              ELSE LET pi == st.paramIndex - 1
                   IN IF pi < 0 \/ pi >= Len(st.pvalues)
                      THEN [moved EXCEPT !.exit = "panic"]
                      ELSE LET si == st.searchIndex - Len(st.pvalues[pi + 1])
                           IN IF si < 0 THEN [moved EXCEPT !.exit = "panic"]
                              ELSE [moved EXCEPT
                                      !.paramIndex = pi,
                                      !.searchIndex = si,
                                      !.pvalues[pi + 1] = <<>>,
                                      !.search = SubSeq(path, si + 1, Len(path))]
        IN [st |-> restored, nk |-> nextNodeKind, valid |-> previous.parent # 0]
      RECURSIVE loop(_, _)
      loop(st, label) ==
        LET n == tree[st.cur]
            \* the backtracking that ends an iteration (broker-router.go 617-628)
            alternative(s) ==
              LET bt == backtrack(s, anyKind)
              IN IF bt.st.exit = "panic" THEN bt.st
                 ELSE IF ~bt.valid THEN [bt.st EXCEPT !.exit = "break"]
                 ELSE IF bt.nk = paramKind THEN loop(bt.st, "Param")
                 ELSE IF bt.nk = anyKind THEN loop(bt.st, "Any")
                 ELSE [bt.st EXCEPT !.exit = "break"]
        IN
        IF label = "for" THEN
          LET prefixLen == IF n.kind = staticKind THEN Len(n.prefix) ELSE 0
              searchLen == Len(st.search)
              max == IF searchLen < prefixLen THEN searchLen ELSE prefixLen
              lcpLen == IF n.kind = staticKind
                        THEN CHOOSE l \in 0..max :
                               /\ \A i \in 1..l : st.search[i] = n.prefix[i]
                               /\ (l < max => st.search[l + 1] # n.prefix[l + 1])
                        ELSE 0
          IN IF lcpLen # prefixLen THEN
               LET bt == backtrack(st, staticKind)
               IN IF ~bt.valid THEN [bt.st EXCEPT !.exit = "return"]
                  ELSE IF bt.nk = paramKind THEN loop(bt.st, "Param")
                  ELSE [bt.st EXCEPT !.exit = "break"]
             ELSE
               LET s1 == [st EXCEPT !.search = SubSeq(st.search, lcpLen + 1, searchLen),
                                    !.searchIndex = st.searchIndex + lcpLen]
                   s2 == IF s1.search = <<>> /\ n.isHandler /\ s1.best = 0
                         THEN [s1 EXCEPT !.best = st.cur] ELSE s1
                   child == IF s2.search # <<>>
                            THEN findStaticChild(tree, n, s2.search[1]) ELSE 0
               IN IF s2.search = <<>> /\ n.isHandler /\ method \in DOMAIN n.methods
                  THEN [s2 EXCEPT !.matched = <<n.methods[method]>>, !.exit = "break"]
                  ELSE IF child # 0 THEN loop([s2 EXCEPT !.cur = child], "for")
                  ELSE loop(s2, "Param")
        ELSE IF label = "Param" THEN
          LET child == n.paramChild
              l == Len(st.search)
              slashes == {k \in 0..(l - 1) : st.search[k + 1] = "/"}
              i == IF tree[child].isLeaf \/ slashes = {} THEN l
                   ELSE CHOOSE k \in slashes : \A k2 \in slashes : k <= k2
          IN IF st.search # <<>> /\ child # 0 THEN
               IF st.paramIndex >= Len(st.pvalues) THEN [st EXCEPT !.exit = "panic"]
               ELSE loop([st EXCEPT !.cur = child,
                                    !.pvalues[st.paramIndex + 1] = SubSeq(st.search, 1, i),
                                    !.paramIndex = st.paramIndex + 1,
                                    !.search = SubSeq(st.search, i + 1, l),
                                    !.searchIndex = st.searchIndex + i], "for")
             ELSE loop(st, "Any")
        ELSE
          LET child == n.anyChild
              c == tree[child]
          IN IF child # 0 THEN
               IF c.paramsCount < 1 \/ c.paramsCount > Len(st.pvalues)
               THEN [st EXCEPT !.exit = "panic"]
               ELSE
                 LET s1 == [st EXCEPT !.cur = child,
                                      !.pvalues[c.paramsCount] = st.search,
                                      !.paramIndex = st.paramIndex + 1,
                                      !.searchIndex = st.searchIndex + Len(st.search),
                                      !.search = <<>>]
                 IN IF method \in DOMAIN c.methods
                    THEN [s1 EXCEPT !.matched = <<c.methods[method]>>, !.exit = "break"]
                    ELSE alternative(IF s1.best = 0 THEN [s1 EXCEPT !.best = child]
                                     ELSE s1)
             ELSE alternative(st)
      end == loop([cur |-> 1, search |-> path, searchIndex |-> 0, paramIndex |-> 0,
                   pvalues |-> ctx.pvalues, best |-> 0, matched |-> <<>>,
                   exit |-> "none"], "for")
      out == [ctx EXCEPT !.path = path, !.pvalues = end.pvalues]
  IN IF end.exit = "panic" THEN [out EXCEPT !.handler = "panic"]
     ELSE IF end.exit = "return" THEN out
     ELSE IF end.cur = 0 /\ end.best = 0 THEN out
     ELSE IF end.matched # <<>>
     THEN [out EXCEPT !.path = end.matched[1].ppath,
                      !.pnames = end.matched[1].pnames,
                      !.handler = end.matched[1].handler]
     ELSE IF end.best = 0 THEN [out EXCEPT !.handler = "panic"]
     ELSE [out EXCEPT !.path = tree[end.best].originalPath,
                      !.pnames = <<>>,
                      !.handler = IF tree[end.best].isHandler
                                  THEN "MethodNotAllowed" ELSE "NotFound"]

\* Broker.Add (broker.go 49-67): a route is added, with a handler of its own.
RouterAdd(method, path) ==
  /\ Len(rAdded) < MaxRoutes
  /\ LET h == <<"h1", "h2", "h3", "h4", "h5">>[Len(rAdded) + 1]
     IN /\ router' = Add(router, method, ValidPath(path), ValidPath(path), <<>>, 0,
                        Len(ValidPath(path)), h)
        /\ rAdded' = Append(rAdded, <<method, path, h>>)
  /\ rFound' = NoFind
  /\ UNCHANGED <<hubVars, subVars, bcVars, cancelVars, serveVars, connVars, sendVars,
                 dispVars, cancVars, pubVars, chanVars, signVars>>

\* The router context that Broker.NewBrokerContext makes (broker.go 119-134).
NewRouterContext(r) ==
  [path |-> <<>>,
   pnames |-> [i \in 1..r.maxParam |-> <<>>] \o <<>>,
   pvalues |-> [i \in 1..r.maxParam |-> <<>>] \o <<>>,
   handler |-> "NotFound"]

\* Broker.GetHandler (broker.go 104-113) on a new context.
RouterFind(method, path) ==
  /\ rAdded # <<>>
  /\ rFound' = [method |-> method, topic |-> path,
                ctx |-> Find(router, method, path, NewRouterContext(router))]
  /\ UNCHANGED <<hubVars, subVars, bcVars, cancelVars, serveVars, connVars, sendVars,
                 dispVars, cancVars, pubVars, chanVars, signVars, router, rAdded>>

NextRouter ==
  \/ \E method \in Methods, path \in Patterns : RouterAdd(method, path)
  \/ \E method \in Methods, path \in Paths : RouterFind(method, path)

SpecRouter == Init /\ [][NextRouter]_vars

\* The router with paths that Add has to validate: empty, or without the
\* leading "/".  url.ParseRequestURI (broker.go 107) fails on both, and on the
\* others its Path is the topic, so GetHandler passes the topic to Find as it is.
NextPaths ==
  \/ \E method \in Methods, path \in {<<>>, <<"a">>, <<"/">>, <<"/", "a">>} :
       RouterAdd(method, path)
  \/ \E method \in Methods, path \in {<<>>, <<"a">>, <<"/">>, <<"/", "a">>} :
       RouterFind(method, path)

SpecPaths == Init /\ [][NextPaths]_vars

\* ------------------------------------------------------------------ Signer
\* The alphabet of base64.StdEncoding; a string is the sequence of its
\* characters, and a character's value is its place in the alphabet less one.
B64 ==
  <<"A", "B", "C", "D", "E", "F", "G", "H", "I", "J", "K", "L", "M", "N", "O", "P",
    "Q", "R", "S", "T", "U", "V", "W", "X", "Y", "Z", "a", "b", "c", "d", "e", "f",
    "g", "h", "i", "j", "k", "l", "m", "n", "o", "p", "q", "r", "s", "t", "u", "v",
    "w", "x", "y", "z", "0", "1", "2", "3", "4", "5", "6", "7", "8", "9", "+", "/">>

\* Signer.hash (part_002 159-163).  HMAC-SHA512 is taken as a function that
\* gives different keys and names different bytes; it is one byte long, which
\* leaves one byte in the last base64 quantum as the 64 bytes of the code do.
hash(key, name) == <<(key * 83 + (IF name = "/a" THEN 41 ELSE 127)) % 256>>

\* base64.StdEncoding.EncodeToString (part_002 167).
RECURSIVE EncodeToString(_)
EncodeToString(b) ==
  IF b = <<>> THEN <<>>
  ELSE IF Len(b) = 1
  THEN <<B64[(b[1] \div 4) + 1], B64[(b[1] % 4) * 16 + 1], "=", "=">>
  ELSE IF Len(b) = 2
  THEN <<B64[(b[1] \div 4) + 1], B64[(b[1] % 4) * 16 + (b[2] \div 16) + 1],
         B64[(b[2] % 16) * 4 + 1], "=">>
  ELSE <<B64[(b[1] \div 4) + 1], B64[(b[1] % 4) * 16 + (b[2] \div 16) + 1],
         B64[(b[2] % 16) * 4 + (b[3] \div 64) + 1], B64[(b[3] % 64) + 1]>>
       \o EncodeToString(SubSeq(b, 4, Len(b)))

\* Signer.Sign (part_002 166-168).
Sign(key, name) == EncodeToString(hash(key, name))

\* base64.StdEncoding.DecodeString (part_002 151): line ends are skipped,
\* the padding is required and nothing may follow it, and the bits of the
\* last character that belong to no byte are not looked at.
RECURSIVE DecodeString(_)
DecodeString(str) ==
  LET s == SelectSeq(str, LAMBDA c : c \notin {"\n", "\r"})
      val(c) == IF c \in Range(B64) THEN (CHOOSE i \in 1..64 : B64[i] = c) - 1 ELSE -1
      bad == [err |-> TRUE, bytes |-> <<>>]
  IN IF s = <<>> THEN [err |-> FALSE, bytes |-> <<>>]
     ELSE IF Len(s) < 4 \/ val(s[1]) < 0 \/ val(s[2]) < 0 THEN bad
     ELSE IF s[3] = "="
     THEN IF s[4] # "=" \/ Len(s) > 4 THEN bad
          ELSE [err |-> FALSE, bytes |-> <<val(s[1]) * 4 + (val(s[2]) \div 16)>>]
     ELSE IF val(s[3]) < 0 THEN bad
     ELSE IF s[4] = "="
     THEN IF Len(s) > 4 THEN bad
          ELSE [err |-> FALSE,
                bytes |-> <<val(s[1]) * 4 + (val(s[2]) \div 16),
                            (val(s[2]) % 16) * 16 + (val(s[3]) \div 4)>>]
     ELSE IF val(s[4]) < 0 THEN bad
     ELSE LET rest == DecodeString(SubSeq(s, 5, Len(s)))
          IN IF rest.err THEN bad
             ELSE [err |-> FALSE,
                   bytes |-> <<val(s[1]) * 4 + (val(s[2]) \div 16),
                               (val(s[2]) % 16) * 16 + (val(s[3]) \div 4),
                               (val(s[3]) % 4) * 64 + val(s[4])>> \o rest.bytes]

\* A Check that accepts whatever integrity field decodes.
CheckDecodesOnly(key, identifier) ==
  IF DecodeString(identifier.integrity).err THEN "err" ELSE "nil"

\* Signer.Check (part_002 119-128) with parseIdentifier (141-156) and
\* validate (137-139), on an identifier that is valid JSON.
Check(key, identifier) ==
  LET parsed == DecodeString(identifier.integrity)
  IN IF parsed.err THEN "err"
     ELSE IF parsed.bytes = hash(key, identifier.name) THEN "nil"
     ELSE "err"

\* The integrity fields tried: the signatures of every key and name, whole,
\* with one character replaced, or with one character put in.
Integrities ==
  LET signed == {Sign(k, n) : k \in {1, 2}, n \in Topics}
      chars == {"A", "B", "M", "=", "!", "\n"}
  IN signed
     \cup {[s EXCEPT ![i] = c] : s \in signed, i \in 1..4, c \in chars}
     \cup {SubSeq(s, 1, i) \o <<c>> \o SubSeq(s, i + 1, 4) :
             s \in signed, i \in 0..4, c \in chars}

\* A signer with the key checks an identifier.
SignerCheck(key, name, integrity) ==
  /\ sgKey' = key
  /\ sgIdentifier' = [name |-> name, integrity |-> integrity]
  /\ sgResult' = Check(key, sgIdentifier')
  /\ UNCHANGED <<hubVars, subVars, bcVars, cancelVars, serveVars, connVars, sendVars,
                 dispVars, cancVars, routerVars, pubVars, chanVars>>

NextSign ==
  \E key \in {1, 2}, name \in Topics, integrity \in Integrities :
    SignerCheck(key, name, integrity)

SpecSign == Init /\ [][NextSign]_vars

\* ------------------------------------------------------------- SpecPub
\* Broker.TriggerPub (broker.go 169-186) called directly, as by an alternative
\* to Broker.Serve: the error of broker.go 172-174 when a cancel function is
\* recorded for the topic, else the function is recorded and the task started
\* (with a context derived from ctx, which may be cancelled already).
BrokerTriggerPub(ctxDone, topic) ==
  /\ pubCalls < MaxPubCalls
  /\ LET st0 == [cancelers |-> pubCancelers, live |-> pubLive]
         st1 == TriggerPub(st0, topic)
     IN /\ pubCancelers' = st1.cancelers
        /\ pubLive' = st1.live
  /\ pubLast' = [op |-> "TriggerPub", topic |-> topic, ctxDone |-> ctxDone,
                 err |-> IF topic \in pubCancelers THEN "error" ELSE "nil"]
  /\ pubCalls' = pubCalls + 1
  /\ UNCHANGED <<hubVars, subVars, bcVars, cancelVars, servePc, serveCtx, closePc,
                 connVars, sendVars, dispVars, cancVars, routerVars, signVars,
                 chanVars>>

\* Broker.CancelPub (broker.go 190-195) called directly.
BrokerCancelPub(topic) ==
  /\ pubCalls < MaxPubCalls
  /\ LET st0 == [cancelers |-> pubCancelers, live |-> pubLive]
         st1 == CancelPub(st0, topic)
     IN /\ pubCancelers' = st1.cancelers
        /\ pubLive' = st1.live
  /\ pubLast' = [op |-> "CancelPub", topic |-> topic, ctxDone |-> FALSE, err |-> "nil"]
  /\ pubCalls' = pubCalls + 1
  /\ UNCHANGED <<hubVars, subVars, bcVars, cancelVars, servePc, serveCtx, closePc,
                 connVars, sendVars, dispVars, cancVars, routerVars, signVars,
                 chanVars>>

NextPub ==
  \/ \E ctxDone \in BOOLEAN, topic \in Topics : BrokerTriggerPub(ctxDone, topic)
  \/ \E topic \in Topics : BrokerCancelPub(topic)

SpecPub == Init /\ [][NextPub]_vars

\* ------------------------------------------------------------- SpecEnds
\* A Close that forgets the subscription on the connection and the dispatcher.
SubscriptionCloseForgets(st, id) ==
  [unsubscribers |-> Restrict(st.unsubscribers, DOMAIN st.unsubscribers \ {id}),
   channels |-> st.channels \ {id}]

\* Subscription.Close (subscriptions.go 65-71) on the maps of the connection
\* and of the dispatcher: its body is empty.
SubscriptionClose(st, id) == st

\* The goroutine of Channel.Subscribe (actioncable-channel.go 83-86): the
\* channel Broker.Subscribe returned is closed and sub.Close() is called. For
\* the nil channel of a refused subscription the goroutine waits for ever.
ChannelFinished(s) ==
  /\ ~panicked /\ sKind[s] = "broker" /\ subPc[s] = "active"
  /\ ~(connPc = "hubSend" /\ curSub = s)
  /\ Done(s) /\ ~subClosed[s]
  /\ subClosed' = [subClosed EXCEPT ![s] = TRUE]
  /\ LET st == SubscriptionClose([unsubscribers |-> unsubscribers, channels |-> channels],
                                 Identifier(sTopic[s]))
     IN /\ unsubscribers' = st.unsubscribers
        /\ channels' = st.channels
  /\ UNCHANGED <<hubVars, subVars, bcVars, cancelVars, serveVars, connPc, connErr,
                 sendPc, egCancelled, toClient, nCmds, curCmd, curSub, cctx, handleCalls,
                 confirms, rejects, lastOutcome, subCmds, serveOutVars, closeVars,
                 sendVars, dispVars, cancVars, routerVars, signVars, pubVars>>

\* The PUB tasks of the topic that are running: launched for a topic with a
\* PUB route (without one the NotFoundHandler returns at once), their own
\* cancel function not called, and the context of Serve, from which
\* TriggerPub derives theirs (broker.go 176, 248), not cancelled.
PubRunning(t) == IF t \in PubRoutes /\ ~serveCtx THEN pubLive[t] ELSE 0

\* The topic has at least one subscription in the hub.
HasSubscriber(t) == t \in DOMAIN broadcastings /\ broadcastings[t] # {}

\* ------------------------------------------------------------- Spec
\* The hub used directly (Hub.Subscribe with any receive callback), with
\* Broker.Serve reading the change channel.
Next ==
  \/ \E t \in Topics : HubSubscribe(t)
  \/ \E s \in SubIds : CtxCancel(s)
  \/ \E t \in UnsubTasks : Unsubscribe(t)
  \/ \E t \in Topics : Broadcast(t)
  \/ \E b \in BcIds, s \in SubIds, res \in ReceiveResults : Callback(b, s, res)
  \/ \E b \in BcIds : BroadcastWaited(b)
  \/ \E topics \in CancelArgs : Cancel(topics)
  \/ ServeStart
  \/ ServeCtxCancel
  \/ Close
  \/ ServeRecv
  \/ ServeReturn

Spec == Init /\ [][Next]_vars

\* Every goroutine that can run does run (the Go scheduler); the callers of
\* the hub and the owners of the contexts are free to do nothing.
Fairness ==
  /\ WF_vars(\E t \in UnsubTasks : Unsubscribe(t))
  /\ WF_vars(\E b \in BcIds, s \in SubIds, res \in ReceiveResults : Callback(b, s, res))
  /\ WF_vars(\E b \in BcIds : BroadcastWaited(b))
  /\ WF_vars(Close)
  /\ WF_vars(ServeRecv)
  /\ WF_vars(ServeReturn)

FairSpec == Spec /\ Fairness

\* Subscriptions made through Broker.Subscribe.
NextBroker ==
  \/ \E t \in Topics, r \in HandlerResults : BrokerSubscribe(t, r)
  \/ \E s \in SubIds : CtxCancel(s)
  \/ \E s \in SubIds : UnsubWatcher(s)
  \/ \E t \in UnsubTasks : Unsubscribe(t)
  \/ \E t \in Topics : BrokerBroadcast(t)
  \/ \E b \in BcIds, s \in SubIds, res \in ReceiveResults : Callback(b, s, res)
  \/ \E b \in BcIds : BroadcastWaited(b)
  \/ \E topics \in CancelArgs : Cancel(topics)
  \/ ServeStart
  \/ ServeCtxCancel
  \/ Close
  \/ ServeRecv
  \/ ServeReturn

SpecBroker == Init /\ [][NextBroker]_vars

\* One Action Cable connection whose dispatcher serves the Turbo Streams
\* channel of a broker that is being served.
NextConn ==
  \/ \E id \in Identifiers, chk \in CheckResults, r \in HandlerResults :
       ConnSubscribe(id, chk, r)
  \/ ConnResume
  \/ \E id \in Identifiers : ConnUnsubscribe(id)
  \/ \E id \in Identifiers : ConnAction(id)
  \/ ConnCtxCancel
  \/ ReceiveReturn
  \/ \E kind \in ReadErrors : ReadError(kind)
  \/ SendWelcome
  \/ SendDeliver
  \/ SendReturn
  \/ ConnServeReturn
  \/ \E err \in CloseErrs, ok \in BOOLEAN : disconnect(err, ok)
  \/ ConnClose
  \/ ServeRecv
  \/ \E t \in UnsubTasks : Unsubscribe(t)
  \/ \E s \in SubIds : UnsubWatcher(s)

SpecConn == InitConn /\ [][NextConn]_vars

\* The sending side of a connection: sendAll with its tickers, the
\* Subscription.SendText calls of the channels and the subscribe commands of
\* the client, here for one stream with a SUB handler that accepts.
NextSend ==
  \/ \E chk \in CheckResults : ConnSubscribe(Identifier("/a"), chk, "nil")
  \/ ConnResume
  \/ ConnCtxCancel
  \/ ReceiveReturn
  \/ SendWelcome
  \/ SendWelcomeFails
  \/ \E kind \in PingKinds : SendPing(kind)
  \/ SendDeliver
  \/ SendReturn
  \/ \E k \in SendIds : SendText(k)
  \/ \E k \in SendIds : SendTextCtxCancel(k)
  \/ \E k \in SendIds : SendTextCtxDone(k)
  \/ \E k \in SendIds : SendTextDeliver(k)
  \/ ServeRecv

SpecSend == InitConn /\ [][NextSend]_vars

\* The goroutines of the connection, the hub and the broker that can run do
\* run; the client and the owner of the connection's context are free to do
\* nothing.
FairnessConn ==
  /\ WF_vars(ConnResume)
  /\ WF_vars(SendWelcome)
  /\ WF_vars(SendDeliver)
  /\ WF_vars(ServeRecv)
  /\ WF_vars(\E t \in UnsubTasks : Unsubscribe(t))
  /\ WF_vars(\E s \in SubIds : UnsubWatcher(s))

FairSpecConn == SpecConn /\ FairnessConn

\* The connection with its two tasks and Conn.Serve scheduled as well: a task
\* whose context is done returns, and eg.Wait returns once both have.
FairSpecServe ==
  /\ FairSpecConn
  /\ WF_vars(ReceiveReturn) /\ WF_vars(SendReturn) /\ WF_vars(ConnServeReturn)

\* A connection being served whose hub subscriptions are also ended from the
\* hub's side, by Hub.Cancel.
NextEnds ==
  \/ \E id \in Identifiers, chk \in CheckResults, r \in HandlerResults :
       ConnSubscribe(id, chk, r)
  \/ ConnResume
  \/ \E id \in Identifiers : ConnUnsubscribe(id)
  \/ SendWelcome
  \/ SendDeliver
  \/ ServeRecv
  \/ \E t \in UnsubTasks : Unsubscribe(t)
  \/ \E s \in SubIds : UnsubWatcher(s)
  \/ \E topics \in CancelArgs : Cancel(topics)
  \/ \E s \in SubIds : ChannelFinished(s)

SpecEnds == InitConn /\ [][NextEnds]_vars

\* The broadcast handler that Channel.Subscribe gives to Broker.Subscribe
\* (actioncable-channel.go 78-82) is called and calls SendText: Hub.Broadcast
\* holds the read lock and the subscription is in the broadcasting of its
\* topic (hub.go 171-189), and the message callback of Broker.Subscribe found
\* its context not done (broker.go 210-212).
ChannelSendText(k) ==
  /\ writer = NoTask
  /\ \E s \in SubIds :
       /\ sKind[s] = "broker" /\ subPc[s] = "active" /\ ~BrokerCtxErr(s)
       /\ sTopic[s] \in DOMAIN broadcastings /\ s \in broadcastings[sTopic[s]]
  /\ SendText(k)

\* The sending side of a connection whose data messages all come from the
\* broadcast handler of its Turbo Streams channel.
NextData ==
  \/ \E chk \in CheckResults : ConnSubscribe(Identifier("/a"), chk, "nil")
  \/ ConnResume
  \/ ConnCtxCancel
  \/ ReceiveReturn
  \/ SendWelcome
  \/ \E kind \in PingKinds : SendPing(kind)
  \/ SendDeliver
  \/ SendReturn
  \/ \E k \in SendIds : ChannelSendText(k)
  \/ \E k \in SendIds : SendTextCtxCancel(k)
  \/ \E k \in SendIds : SendTextCtxDone(k)
  \/ \E k \in SendIds : SendTextDeliver(k)
  \/ ServeRecv

SpecData == InitConn /\ [][NextData]_vars

\* ------------------------------------------------------------- claims
\* C1: Hub.Broadcast invokes the receive callback of every subscription it
\* found in the topic's broadcasting exactly once, and the call always returns
\* once all those callbacks have returned, whatever they returned (with
\* Broker.Serve reading the change channel, and unless the process panics).
C1_BroadcastReturns ==
  \A b \in BcIds :
    (bcPc[b] = "running" /\ bcTodo[b] = {} /\ servePc = "recv")
      ~> (panicked \/ (bcPc[b] = "returned"
                         /\ \A s \in bcSnap[b] : bcCalls[b][s] = 1))

\* C2: a subscription whose receive callback returned an error during a
\* Broadcast is, by the time that Broadcast returns, which it does, removed
\* from the broadcasting of its topic with its done-channel closed.
C2_ErrorUnsubscribes ==
  \A b \in BcIds, s \in SubIds :
    (bcPc[b] = "running" /\ s \in Range(bcErrs[b]) /\ servePc = "recv")
      ~> (panicked \/ (/\ bcPc[b] = "returned"
                       /\ \A t \in DOMAIN broadcastings : s \notin broadcastings[t]
                       /\ Done(s)))

\* C3: for every topic the Added events minus the Removed events sent on the
\* change channel is 0 or 1, and, while the hub is not closed, it is 1 exactly
\* when the topic has a broadcasting in the hub.
C3_EventsAlternate ==
  \A t \in Topics :
    /\ evNet[t] \in {0, 1}
    /\ ~hubClosed => (evNet[t] = 1 <=> t \in DOMAIN broadcastings)

C5_SubBeforeUnsubOnce ==
  \A s \in SubIds : sKind[s] = "broker" =>
    /\ handlerInvoked[s] => (subResult[s] # None /\ TriggerSub(subResult[s]) = "nil")
    /\ unsubCalls[s] <= 1
    /\ unsubCalls[s] = 1 => Done(s)
    /\ unsubPc[s] = "done" <=> unsubCalls[s] = 1
    /\ subPc[s] = "rejected" => (unsubCalls[s] = 0 /\ unsubPc[s] = "idle")
    /\ (subPc[s] = "active" /\ Done(s) /\ ~panicked)
         => (unsubCalls[s] = 1 \/ ENABLED UnsubWatcher(s))

\* An accepted subscription whose broadcast handler ran and whose UNSUB
\* handler has run, next to a rejected one.
C5_Witness ==
  \E s, r \in SubIds :
    /\ sKind[s] = "broker" /\ subPc[s] = "active"
    /\ handlerInvoked[s] /\ unsubCalls[s] = 1
    /\ subPc[r] = "rejected"

\* C6: when the SUB handler returns a non-nil error Broker.Subscribe returns a
\* nil channel, the subscription is not in the hub and its broadcast handler
\* is never invoked.
C6_SubErrorRejects ==
  \A s \in SubIds :
    (sKind[s] = "broker" /\ subResult[s] \in {"canceled", "err"}) =>
      /\ subPc[s] = "rejected"
      /\ \A t \in DOMAIN broadcastings : s \notin broadcastings[t]
      /\ ~handlerInvoked[s]

\* C7: when every SUB handler run for a client's subscribe commands on a
\* Turbo Streams identifier returned an error, the server has answered with
\* reject_subscription and never with confirm_subscription, and the identifier
\* is neither in the dispatcher's channels nor in the unsubscribers.
C7_SubErrorRejectsCommand ==
  \A id \in Identifiers :
    LET att == {s \in SubIds : s < nextSub /\ sTopic[s] = parseStreamName(id)}
    IN (att # {} /\ \A s \in att : subResult[s] = "err") =>
         /\ confirms[id] = 0
         /\ rejects[id] >= 1
         /\ id \notin channels
         /\ id \notin DOMAIN unsubscribers

\* C8: when a subscribe command is refused because an identifier checker
\* fails, reject_subscription is enqueued and receiveAll does not return
\* because of the refusal.
C8_RefusalKeepsConnection ==
  \A id \in Identifiers :
    lastOutcome[id] = "rejected" =>
      /\ rejects[id] >= 1
      /\ ~(connPc = "returned" /\ connErr = "subscribe")

\* C9: a subscribe command for an identifier that has a recorded cancel
\* function only enqueues one more confirm_subscription: HandleSubscription is
\* not invoked, no Broker.Subscribe call is made, the hub's broadcastings, the
\* dispatcher's channels and the recorded cancel functions do not change.
C9_ResubscribeOnlyConfirms ==
  [][(nCmds' = nCmds + 1 /\ curCmd'.cmd = "subscribe"
        /\ curCmd'.identifier \in DOMAIN unsubscribers)
     => (/\ toClient' = Confirmation(curCmd'.identifier)
         /\ confirms' = [confirms EXCEPT ![curCmd'.identifier] = @ + 1]
         /\ UNCHANGED <<rejects, handleCalls, nextSub, subPc, broadcastings,
                        channels, unsubscribers>>)]_vars

\* An identifier subscribed twice in a row and confirmed twice.
C9_Witness ==
  \E id \in Identifiers :
    /\ subCmds[id] = 2 /\ confirms[id] = 2 /\ handleCalls[id] = 1
    /\ id \in DOMAIN unsubscribers
    /\ connPc = "read"

\* C10: an identifier is in the unsubscribers exactly when its last subscribe
\* was accepted by HandleSubscription and it was not unsubscribed since; every
\* subscribe command is answered by one message, a confirm_subscription when
\* it is accepted and a reject_subscription when it is not; after the
\* rejection the derived context is cancelled.
C10_UnsubscribersExact ==
  \A id \in Identifiers :
    /\ id \in DOMAIN unsubscribers <=> lastOutcome[id] = "accepted"
    /\ confirms[id] + rejects[id]
         + (IF connPc = "hubSend" /\ curCmd.identifier = id THEN 1 ELSE 0)
       = subCmds[id]
    /\ lastOutcome[id] = "accepted" => confirms[id] >= 1
    /\ lastOutcome[id] = "rejected" =>
         (rejects[id] = 1 /\ (toClient = Rejection(id) \/ cctx = "cancelled"))
    /\ toClient = Confirmation(id) => id \in DOMAIN unsubscribers
    /\ toClient = Rejection(id) => lastOutcome[id] = "rejected"

\* One identifier accepted and recorded, another refused and its context
\* cancelled.
C10_Witness ==
  \E a, b \in Identifiers :
    /\ lastOutcome[a] = "accepted" /\ a \in DOMAIN unsubscribers /\ confirms[a] = 1
    /\ lastOutcome[b] = "rejected" /\ b \notin DOMAIN unsubscribers
    /\ rejects[b] = 1 /\ cctx = "cancelled"

\* C11: an unsubscribe command for an identifier with a recorded cancel
\* function invokes that function and removes the entry, and then the hub
\* subscription is eventually out of its topic's broadcasting and the UNSUB
\* handler has run once; an unsubscribe command for an identifier without one
\* changes nothing and receiveAll goes on reading.
C11_UnsubscribeCancels ==
  /\ [][(nCmds' = nCmds + 1 /\ curCmd'.cmd = "unsubscribe")
        => IF curCmd'.identifier \in DOMAIN unsubscribers
           THEN /\ ctxCancelled'[unsubscribers[curCmd'.identifier]]
                /\ curCmd'.identifier \notin DOMAIN unsubscribers'
                /\ connPc' = "read"
           ELSE UNCHANGED <<unsubscribers, ctxCancelled, channels, hubVars, connPc,
                            connErr, egCancelled, toClient>>]_vars
  /\ \A s \in SubIds :
       ctxCancelled[s] ~> (/\ \A t \in DOMAIN broadcastings : s \notin broadcastings[t]
                           /\ unsubCalls[s] = 1)

\* C12: Hub.Broadcast never invokes the receive callback of a subscription
\* whose done-channel is closed.
C12_NoCallbackAfterDone ==
  [][\A b \in BcIds, s \in SubIds : bcCalls'[b][s] > bcCalls[b][s] => ~Done(s)]_vars


\* C13: two Hub.Broadcast calls on the same topic never overlap: once a
\* callback of the later broadcast has run, no callback of the earlier one is
\* still to run.
C13_BroadcastsDoNotOverlap ==
  \A b1, b2 \in BcIds :
    (b1 < b2 /\ b2 < nextBc /\ bcTopic[b1] = bcTopic[b2]
       /\ \E s \in SubIds : bcCalls[b2][s] > 0)
      => bcTodo[b1] = {}


\* C14: once Hub.Close has returned, the done-channel of every registered
\* subscription is closed; Close itself sends no change event; and a later
\* Hub.Broadcast returns at once, without a callback and without a panic.
C14_CloseEndsAll ==
  /\ [](hubClosed =>
          \A s \in SubIds : subPc[s] \in {"sending", "active"} => Done(s))
  /\ [][(~hubClosed /\ hubClosed')
          => (brSend' = NoEvent /\ evNet' = evNet /\ broadcastings' = <<>>)]_vars
  /\ [][hubClosed => bcCalls' = bcCalls]_vars
  /\ [][(hubClosed /\ nextBc' = nextBc + 1)
          => (bcPc'[nextBc] = "returned" /\ ~panicked')]_vars

\* Close cancelled a subscription that an earlier Broadcast had served, and a
\* Broadcast on its topic after Close returned without calling it.
C14_Witness ==
  /\ hubClosed /\ nextCancel = 1 /\ nextBc = 3
  /\ \E s \in SubIds :
       /\ hubCancelled[s] /\ ~ctxCancelled[s]
       /\ bcTopic[1] = sTopic[s] /\ bcTopic[2] = sTopic[s]
       /\ bcCalls[1][s] = 1 /\ bcErrs[1] = <<>>
       /\ bcCalls[2][s] = 0 /\ bcPc[2] = "returned"


\* C15: whenever no hub operation holds h.mu exclusively, every topic in
\* broadcastings has a non-empty set and every subscription in a set is one of
\* that topic.
C15_BroadcastingsWellFormed ==
  writer = NoTask =>
    \A t \in DOMAIN broadcastings :
      /\ broadcastings[t] # {}
      /\ \A s \in broadcastings[t] : sTopic[s] = t

\* One subscription has been removed by its own unsubscribe and another is
\* still registered, with the lock free.
C15_Witness ==
  /\ writer = NoTask /\ ~hubClosed /\ nextCancel = 1
  /\ \E s, r \in SubIds :
       /\ watchPc[s] = "done" /\ \A t \in DOMAIN broadcastings : s \notin broadcastings[t]
       /\ sTopic[r] \in DOMAIN broadcastings /\ r \in broadcastings[sTopic[r]]


\* C16: Hub.Cancel(topics) cancels and removes every subscription on the given
\* topics, and the change event it sends lists as Removed exactly the given
\* topics that had a broadcasting.
C16_CancelListsPresentTopics ==
  [][nextCancel' = nextCancel + 1
       => LET present == Range(cancelTopics'[nextCancel]) \cap DOMAIN broadcastings
          IN /\ \A t \in present :
                  /\ t \notin DOMAIN broadcastings'
                  /\ \A s \in broadcastings[t] : hubCancelled'[s]
             /\ brSend' # NoEvent
                  => (brSend'.added = <<>> /\ Range(brSend'.removed) = present)]_vars


\* C17: while Serve is running, the removal of the last subscription of a
\* topic sends a Removed event naming it, Serve eventually receives the event,
\* and on receipt cancels the topic's PUB task and forgets its cancel function;
\* an Added event for a topic without a cancel function starts a PUB task; so
\* the starts and cancels of a topic's PUB tasks alternate, a start first.
C17_PubFollowsChanges ==
  /\ [][\A t \in Topics :
          (HasSubscriber(t) /\ t \notin DOMAIN broadcastings' /\ ~hubClosed')
            => t \in Range(brSend'.removed)]_vars
  /\ (servePc = "recv" /\ brSend # NoEvent) ~> (brSend = NoEvent)
  /\ [][(servePc = "recv" /\ brSend # NoEvent /\ brSend' = NoEvent)
          => \A t \in Topics :
               /\ (t \in Range(brSend.removed) /\ t \in pubCancelers)
                    => (pubLive'[t] = pubLive[t] - 1 /\ t \notin pubCancelers')
               /\ (t \in Range(brSend.added) /\ t \notin pubCancelers)
                    => (pubLive'[t] = pubLive[t] + 1 /\ t \in pubCancelers')]_vars
  /\ [](\A t \in Topics : /\ pubLive[t] \in {0, 1}
                          /\ pubLive[t] = 1 <=> t \in pubCancelers)

\* Add, remove, add on "/a", all processed by Serve: the first subscription was
\* cancelled by Hub.Cancel("/a"), the second was made afterwards and a PUB task
\* is running for it.
C17_Witness ==
  /\ servePc = "recv" /\ brSend = NoEvent /\ ~hubClosed
  /\ nextCancel = 2 /\ cancelTopics[1] = <<"/a">> /\ cancelPc[1] = "returned"
  /\ sTopic[1] = "/a" /\ hubCancelled[1] /\ ~ctxCancelled[1]
  /\ sTopic[2] = "/a" /\ subPc[2] = "active" /\ ~hubCancelled[2]
  /\ HasSubscriber("/a") /\ 2 \in broadcastings["/a"]
  /\ pubLive["/a"] = 1 /\ "/a" \in pubCancelers


\* C18: once the context of a running Broker.Serve is cancelled, Hub.Close is
\* eventually executed and Serve returns, whatever hub operations are in
\* flight (unless a goroutine panics first).
C18_ServeReturnsAfterCancel ==
  (servePc = "recv" /\ serveCtx) ~> ((hubClosed /\ servePc = "returned") \/ panicked)


C20_CloseDisconnects ==
  /\ [][(connClosePc = "idle" /\ connClosePc' # "idle")
          => /\ connClosePc' = "disconnected"
             /\ \A id \in DOMAIN unsubscribers : ctxCancelled'[unsubscribers[id]]
             /\ unsubscribers' = <<>>
             /\ disconnectFrame'.type = "disconnect"
             /\ disconnectFrame'.reconnect = FALSE
             /\ closeErr' = "canceled" => disconnectFrame'.reason = "logged out"
             /\ closeErr' = "other" => disconnectFrame'.reason = "server or client error"]_vars
  /\ [](connClosePc = "closed"
          => (unsubscribers = <<>> /\ disconnectFrame.type = "disconnect"))
  /\ [](connClosePc = "disconnected" => ENABLED ConnClose)

\* Conn.Close was given a non-nil error, cancelled the subscription of the only
\* command read, an accepted subscribe, failed to write the disconnect message
\* and closed the websocket.
C20_Witness ==
  /\ connClosePc = "closed" /\ ~disconnectWritten /\ closeErr = "other"
  /\ disconnectFrame.reason = "server or client error"
  /\ nextSub = 2 /\ subPc[1] = "active" /\ ctxCancelled[1]
  /\ nCmds = 1 /\ confirms[Identifier(sTopic[1])] = 1


\* C21: a SendText or SendBytes call returns only once its message is enqueued
\* or its context is cancelled; it returns nil only if the message was
\* enqueued with the context not cancelled; and a call whose context is
\* already cancelled when it returns has returned the context's error without
\* its message being enqueued.
C21_ContextWins ==
  /\ [](\A k \in SendIds :
          /\ stPc[k] = "returned" => (stEnq[k] \/ stCtx[k])
          /\ stRes[k] = "nil" => stEnq[k])
  /\ [][\A k \in SendIds :
          (stPc[k] = "select" /\ stPc'[k] = "returned")
            => /\ stRes'[k] = "nil" => ~stCtx[k]
               /\ stCtx[k] => (stRes'[k] = "canceled" /\ ~stEnq'[k])]_vars


\* C22: the welcome frame is written at most once, sendAll is in its loop only
\* after writing it, and it is the first frame written: no ping, confirmation,
\* rejection or data frame precedes it.
C22_WelcomeFirst ==
  /\ Count(wire, "welcome") <= 1
  /\ sendPc = "loop" => Count(wire, "welcome") = 1
  /\ wire # <<>> => wire[1] = "welcome"

\* After the welcome frame a confirmation, a ping and a data frame have been
\* written.
C22_Witness ==
  /\ Len(wire) >= 4 /\ wire[1] = "welcome"
  /\ Count(wire, "confirm_subscription") >= 1
  /\ Count(wire, "data") >= 1
  /\ Count(wire, "ping") + Count(wire, "wsPing") >= 1


\* C23: an action command whose handling returns an error, as it does for an
\* identifier with no channel and for every Turbo Streams channel, ends
\* receiveAll with that error and cancels the context of sendAll.
C23_ActionErrorTerminates ==
  [][(nCmds' = nCmds + 1 /\ curCmd'.cmd = "action")
       => /\ connPc' = "returned"
          /\ connErr' = "action"
          /\ egCancelled'
          /\ egErr' = "action"]_vars

\* An action on an identifier with a Turbo Streams channel has ended the
\* connection: both tasks have returned and Conn.Serve returned the error.
C23_Witness ==
  /\ curCmd.cmd = "action" /\ curCmd.identifier \in channels
  /\ connPc = "returned" /\ connErr = "action" /\ sendPc = "returned"
  /\ connServe = "action"


\* C24: HandleSubscription for an identifier with no channel stores the channel
\* exactly when every checker passed, a factory is registered, the factory
\* succeeded and the channel's Subscribe returned nil, and then returns nil;
\* otherwise it returns an error and leaves the channels as they were; the
\* factory is not called when a checker fails.
C24_StoresOnlyOnSuccess ==
  [][(dCalls' = dCalls + 1 /\ dLast'.id \notin dChannels)
       => LET c == dLast'
              good == c.chk = "ok" /\ c.fac /\ c.made = "nil" /\ c.sub = "nil"
          IN /\ c.id \in dChannels' <=> good
             /\ good => (c.err = "nil" /\ dChannels' = dChannels \cup {c.id})
             /\ ~good => (c.err # "nil" /\ dChannels' = dChannels)
             /\ c.chk = "fail" => ~c.factoryCalled
             /\ c.subscribeCalled => c.factoryCalled]_vars

\* The last call was for an identifier without a channel and failed in the
\* channel's Subscribe, after a factory made the channel; another identifier
\* has a channel.
C24_Witness ==
  /\ dLast.id \in Identifiers /\ dLast.id \notin dChannels /\ dChannels # {}
  /\ dLast.chk = "ok" /\ dLast.fac /\ dLast.made = "nil" /\ dLast.sub = "err"
  /\ dLast.factoryCalled /\ dLast.subscribeCalled /\ dLast.err = "err"

\* C25: HandleSubscription for an identifier that has a channel calls that
\* channel's Subscribe again, without the factory; if it returns an error the
\* binding is removed and an error returned, otherwise the channels stay as
\* they were and nil is returned.
C25_ResubscribeRebinds ==
  [][(dCalls' = dCalls + 1 /\ dLast'.id \in dChannels)
       => LET c == dLast'
          IN /\ c.subscribeCalled /\ ~c.factoryCalled
             /\ c.sub # "nil" => (c.err # "nil" /\ dChannels' = dChannels \ {c.id})
             /\ c.sub = "nil" => (c.err = "nil" /\ dChannels' = dChannels)]_vars

\* A re-subscription failed, with checkers that would have refused the
\* identifier, and removed the binding; the other identifier keeps its channel.
C25_Witness ==
  /\ dCalls >= 3 /\ dLast.id \in Identifiers /\ dLast.id \notin dChannels
  /\ dLast.subscribeCalled /\ ~dLast.factoryCalled /\ dLast.err = "err"
  /\ dLast.chk = "fail" /\ dChannels # {}


C27_CancelInvokesAll ==
  [][/\ (cHolder # NoTask /\ cHolder[1] = "cancel" /\ cHolder' = NoTask) =>
          /\ cHolder[2] \notin DOMAIN cFuncs'
          /\ \A id \in DOMAIN cFuncs \ {cHolder[2]} :
               id \in DOMAIN cFuncs' /\ cFuncs'[id] = cFuncs[id]
          /\ \A f \in FuncIds :
               cInvoked'[f] =
                 cInvoked[f] + (IF /\ cHolder[2] \in DOMAIN cFuncs
                                   /\ f \in Range(cFuncs[cHolder[2]])
                                THEN 1 ELSE 0)
     /\ \A f \in FuncIds :
          (f < cNext' /\ cHolder' # <<"add", f>>) =>
             LET recorded == IF cKey'[f] \in DOMAIN cFuncs'
                             THEN Count(cFuncs'[cKey'[f]], f) ELSE 0
             IN /\ cInvoked'[f] + recorded = 1
                /\ \A id \in DOMAIN cFuncs' \ {cKey'[f]} :
                     f \notin Range(cFuncs'[id])]_vars

\* Two functions added under one id have been invoked by a Cancel of it, and a
\* function added under it afterwards is still recorded.
C27_Witness ==
  /\ cHolder = NoTask
  /\ cInvoked[1] = 1 /\ cInvoked[2] = 1 /\ cInvoked[3] = 0
  /\ cKey[1] = "x" /\ cKey[2] = "x" /\ cKey[3] = "x"
  /\ "x" \in DOMAIN cFuncs /\ cFuncs["x"] = <<3>>

\* C29: an Add for a method and pattern that were added before changes what
\* Find answers, for every method and path, in one way only: where the
\* handler was the one registered before for that method and pattern, it is
\* now the new one.  The patterns, parameter names and values found, and the
\* handlers of the other methods and patterns, are as before.
C29_AddTwice ==
  [][(/\ Len(rAdded') = Len(rAdded) + 1
      /\ \E i \in 1..Len(rAdded) :
           /\ rAdded[i][1] = rAdded'[Len(rAdded')][1]
           /\ rAdded[i][2] = rAdded'[Len(rAdded')][2]) =>
       LET new == rAdded'[Len(rAdded')]
           same == {i \in 1..Len(rAdded) :
                      rAdded[i][1] = new[1] /\ rAdded[i][2] = new[2]}
           old == rAdded[CHOOSE i \in same : \A j \in same : j <= i][3]
       IN \A method \in Methods, path \in Paths :
            LET before == Find(router, method, path, NewRouterContext(router))
                after == Find(router', method, path, NewRouterContext(router'))
            IN after = [before EXCEPT !.handler = IF @ = old THEN new[3] ELSE @]]_vars

\* A method and pattern have been added twice, and Find has selected the
\* handler of the second Add, with the pattern.
C29_Witness ==
  /\ rFound # NoFind
  /\ \E i, j \in 1..Len(rAdded) :
       /\ i < j
       /\ rAdded[i][1] = rAdded[j][1] /\ rAdded[i][2] = rAdded[j][2]
       /\ rFound.method = rAdded[j][1]
       /\ rFound.ctx.handler = rAdded[j][3]
       /\ rFound.ctx.path = rAdded[j][2]

\* C30: Find has exactly three outcomes: the handler, pattern and parameter
\* names of a route registered for the method; or the MethodNotAllowed
\* handler with the pattern of a route registered for other methods only; or
\* the NotFound handler.
C30_ThreeOutcomes ==
  rFound # NoFind =>
    LET ctx == rFound.ctx
        mine == {a \in Range(rAdded) : a[1] = rFound.method}
        others == {a \in Range(rAdded) : a[1] # rFound.method}
    IN \/ \E a \in mine : ctx.handler = a[3] /\ ctx.path = a[2]
       \/ /\ ctx.handler = "MethodNotAllowed"
          /\ \E a \in others : ctx.path = a[2]
          /\ \A a \in mine : ctx.path # a[2]
       \/ ctx.handler = "NotFound"

\* C28: among the routes registered for the method whose pattern matches the
\* path, Find selects the one that has, at the first place where two matching
\* patterns part, a static segment rather than a named parameter rather than
\* a catch-all: a path that a static route and a parameter route both match
\* gets the static route, and a path that no static route matches gets a
\* matching parameter or catch-all route.  A parameter takes the path up to
\* the next "/", or the rest of the path when no registered pattern goes on
\* after it; a catch-all takes the rest of the path.
C28_StaticParamAny ==
  rFound # NoFind =>
    LET path == rFound.topic
        \* what is left of a pattern after the name of its leading parameter
        afterName(p) ==
          LET ends == {k \in 1..Len(p) : p[k] = "/"}
          IN IF ends = {} THEN <<>>
             ELSE SubSeq(p, CHOOSE k \in ends : \A k2 \in ends : k <= k2, Len(p))
        RECURSIVE goesOn(_, _)
        \* the pattern q follows the pattern p to its end and goes on
        goesOn(p, q) ==
          IF p = <<>> THEN q # <<>>
          ELSE IF q = <<>> THEN FALSE
          ELSE IF p[1] = ":" THEN q[1] = ":" /\ goesOn(afterName(p), afterName(q))
          ELSE q[1] = p[1] /\ goesOn(Tail(p), Tail(q))
        RECURSIVE matches(_, _, _)
        matches(p, s, whole) ==
          IF p = <<>> THEN s = <<>>
          ELSE IF p[1] = "*" THEN TRUE
          ELSE IF p[1] = ":" THEN
            LET slashes == {k \in 1..Len(s) : s[k] = "/"}
                rest == IF slashes = {} \/ (afterName(p) = <<>> /\ ~\E a \in Range(rAdded) : goesOn(whole, a[2]))
                        THEN <<>>
                        ELSE SubSeq(s, CHOOSE k \in slashes : \A k2 \in slashes : k <= k2,
                                    Len(s))
            IN s # <<>> /\ matches(afterName(p), rest, whole)
          ELSE s # <<>> /\ s[1] = p[1] /\ matches(Tail(p), Tail(s), whole)
        RECURSIVE preferred(_, _)
        \* where p and q part, p has the segment that Find tries first
        preferred(p, q) ==
          IF p = <<>> \/ q = <<>> THEN FALSE
          ELSE IF p[1] = ":" /\ q[1] = ":" THEN preferred(afterName(p), afterName(q))
          ELSE IF p[1] = ":" THEN q[1] = "*"
          ELSE IF p[1] = "*" THEN FALSE
          ELSE IF q[1] \in {":", "*"} THEN TRUE
          ELSE p[1] = q[1] /\ preferred(Tail(p), Tail(q))
        routes == {i \in 1..Len(rAdded) :
                     /\ rAdded[i][1] = rFound.method
                     /\ ~\E j \in (i + 1)..Len(rAdded) :
                          rAdded[j][1] = rAdded[i][1] /\ rAdded[j][2] = rAdded[i][2]}
        matching == {i \in routes : matches(rAdded[i][2], path, rAdded[i][2])}
    IN matching # {} =>
         \E i \in matching :
           /\ rFound.ctx.handler = rAdded[i][3]
           /\ rFound.ctx.path = rAdded[i][2]
           /\ \A j \in matching \ {i} : preferred(rAdded[i][2], rAdded[j][2])

\* C31: the router treats an empty path as "/" and a path without the leading
\* "/" as if "/" were prepended, in Add and in Find alike: Find for a method
\* and the very path given to Add for a static pattern selects the handler
\* last added for the method and that pattern.
C31_PathsNormalised ==
  rFound # NoFind =>
    \A i \in 1..Len(rAdded) :
      (/\ rAdded[i][1] = rFound.method
       /\ rAdded[i][2] = rFound.topic
       /\ ~\E j \in (i + 1)..Len(rAdded) :
            /\ rAdded[j][1] = rAdded[i][1]
            /\ ValidPath(rAdded[j][2]) = ValidPath(rAdded[i][2]))
      => rFound.ctx.handler = rAdded[i][3]

\* C32 as stated: Check accepts an identifier exactly when its integrity field
\* is Sign(name) under the signer's key; a perturbed signature, a signature of
\* another name or key, and a field that is not base64 are rejected.
C32_OnlySignature ==
  sgResult # "none" =>
    (sgResult = "nil" <=> sgIdentifier.integrity = Sign(sgKey, sgIdentifier.name))

\* C32 as the code has it: Check accepts an identifier exactly when its
\* integrity field, line ends left out, is Sign(name) under the signer's key
\* up to the four bits of the last character before the padding that belong
\* to no byte of the HMAC.  The signature itself is accepted; a signature of
\* another name or key, a field with any other character changed, and a field
\* that is not base64 are rejected.
C32_OnlyHmac ==
  sgResult # "none" =>
    LET s == SelectSeq(sgIdentifier.integrity, LAMBDA c : c \notin {"\n", "\r"})
        g == Sign(sgKey, sgIdentifier.name)
        last == Len(g) - 2
        place(c) == CHOOSE i \in 1..64 : B64[i] = c
    IN sgResult = "nil" <=>
         /\ Len(s) = Len(g)
         /\ \A i \in 1..Len(g) : i # last => s[i] = g[i]
         /\ s[last] \in Range(B64)
         /\ (place(s[last]) - 1) \div 16 = (place(g[last]) - 1) \div 16

\* Check has accepted an identifier whose integrity field is not Sign(name).
C32_Witness ==
  /\ sgResult = "nil"
  /\ sgIdentifier.integrity # Sign(sgKey, sgIdentifier.name)

\* C33: when receiveAll or sendAll has returned, the other task eventually
\* returns too and Conn.Serve returns, also when the receive task is handling
\* a subscribe command at that moment.
C33_ServeReturns ==
  (connPc = "returned" \/ sendPc = "returned") ~> (connServe # None)


\* C34: whenever the goroutine of Broker.Subscribe has invoked the UNSUB
\* handler of a subscription, the context it handed to the handler (the cctx
\* of broker.go 208) was already cancelled at that invocation.
C34_UnsubCtxCancelled ==
  \A s \in SubIds : (sKind[s] = "broker" /\ unsubCalls[s] > 0) => unsubCtxDone[s]


\* C35: a TriggerPub for a topic with a recorded cancel function returns an
\* error and changes nothing (no task is started, the recorded function stays);
\* a TriggerPub for a topic without one succeeds, records a function and starts
\* one task; after CancelPub no function is recorded for the topic and its
\* task is cancelled, so the next TriggerPub for it succeeds.
C35_TriggerPubOnce ==
  [][/\ \A t \in Topics :
          (pubCalls' = pubCalls + 1 /\ pubLast'.op = "TriggerPub" /\ pubLast'.topic = t)
            => IF t \in pubCancelers
               THEN /\ pubLast'.err = "error"
                    /\ pubCancelers' = pubCancelers /\ pubLive' = pubLive
               ELSE /\ pubLast'.err = "nil"
                    /\ pubCancelers' = pubCancelers \cup {t}
                    /\ pubLive' = [pubLive EXCEPT ![t] = @ + 1]
     /\ \A t \in Topics :
          (pubCalls' = pubCalls + 1 /\ pubLast'.op = "CancelPub" /\ pubLast'.topic = t)
            => /\ t \notin pubCancelers'
               /\ pubLive'[t] = 0]_vars

\* The fourth direct call, a TriggerPub("/a"), has just returned the error:
\* a cancel function is recorded for "/a" and one task is running for it.
C35_Witness ==
  /\ pubCalls = 4 /\ pubLast.op = "TriggerPub" /\ pubLast.topic = "/a"
  /\ pubLast.err = "error"
  /\ "/a" \in pubCancelers /\ pubLive["/a"] = 1


\* C36: once Conn.Serve has returned, the context of every subscription the
\* connection accepted (HandleSubscription returned nil for it) is done,
\* whether or not Conn.Close was called and whether or not the identifier was
\* unsubscribed.
C36_ServeEndCancelsAll ==
  connServe # None
    => \A s \in SubIds :
         (s < nextSub /\ sKind[s] = "broker" /\ ~(connPc = "hubSend" /\ curSub = s))
           => SubscribeCtxErr(s)

\* Conn.Serve has returned and Conn.Close was not called; an accepted
\* subscription is still recorded, its cancel function never called.
C36_Witness ==
  /\ connServe # None /\ connClosePc = "idle"
  /\ \E id \in DOMAIN unsubscribers :
       /\ unsubscribers[id] \in SubIds /\ ~ctxCancelled[unsubscribers[id]]
       /\ SubscribeCtxErr(unsubscribers[id])


\* C37: whenever no hub operation holds h.mu exclusively, every subscription
\* Hub.Subscribe has created is in the broadcasting of its topic or has a
\* closed done-channel; and, while Serve is running, a registered subscription
\* whose done-channel is closed is eventually out of that broadcasting.
C37_InSetOrDone ==
  /\ [](writer = NoTask =>
          \A s \in SubIds :
            subPc[s] \in {"sending", "active"}
              => \/ (sTopic[s] \in DOMAIN broadcastings /\ s \in broadcastings[sTopic[s]])
                 \/ Done(s))
  /\ \A s \in SubIds :
       (subPc[s] = "active" /\ Done(s) /\ servePc = "recv")
         ~> (panicked \/ \A t \in DOMAIN broadcastings : s \notin broadcastings[t])


C39_ConfirmBeforeData ==
  \A i \in 1..Len(wire) :
    wire[i] = "data" => \E j \in 1..(i - 1) : wire[j] = "confirm_subscription"


\* C40: an unsubscribe command leaves the dispatcher's channels as they were,
\* and no command removes the binding of a Turbo Streams channel; a subscribe
\* command for an identifier that has a channel but no recorded cancel
\* function goes to the channel's Subscribe whatever the identifier checkers
\* would say (a Broker.Subscribe call is made and the command is not
\* rejected); and HandleAction for an identifier with a channel returns what
\* the channel's Perform returns, recorded cancel function or not.
C40_BindingOutlives ==
  /\ [][(nCmds' = nCmds + 1 /\ curCmd'.cmd = "unsubscribe") => channels' = channels]_vars
  /\ [][channels \subseteq channels']_vars
  /\ [][\A id \in Identifiers :
          (/\ nCmds' = nCmds + 1 /\ curCmd' = [cmd |-> "subscribe", identifier |-> id]
           /\ id \in channels /\ id \notin DOMAIN unsubscribers)
            => (/\ handleCalls'[id] = handleCalls[id] + 1
                /\ nextSub' = nextSub + 1 /\ sTopic'[nextSub] = parseStreamName(id)
                /\ rejects' = rejects /\ id \in channels')]_vars
  /\ [](\A id \in channels : HandleAction(channels, id) = Perform)

\* An identifier was subscribed, unsubscribed and subscribed again: the handler
\* ran twice, the second hub subscription is the recorded one and the first
\* one's context is cancelled.
C40_Witness ==
  \E id \in Identifiers :
    /\ subCmds[id] = 2 /\ handleCalls[id] = 2 /\ id \in channels
    /\ id \in DOMAIN unsubscribers /\ unsubscribers[id] = 2 /\ ctxCancelled[1]
    /\ sTopic[1] = parseStreamName(id) /\ connPc = "read"

====
